---- MODULE Spec2Model ----
(***************************************************************************)
(* console-viz: the cell buffer, the FrameBuffer diff engine, the diff     *)
(* renderer and the style-markup parser of package draw.                   *)
(*                                                                         *)
(*   Spec       the renderer: widgets are mutated, rendered, the terminal  *)
(*              is resized and cleared                                     *)
(*   SpecFB     the FrameBuffer methods called directly on arbitrary       *)
(*              Buffers                                                    *)
(*   SpecParse  draw.ParseStyles run rune by rune on bounded inputs        *)
(***************************************************************************)
EXTENDS Integers, Sequences, FiniteSets, TLC

\* ---------------------------------------------------------------- bounds
\* columns of the modelled plane: points have x in 0..MaxX-1
MaxX == 2
\* longest free-form input handed to ParseStyles
MaxInput == 5
\* longest text T of a well-formed "[T](fg:red)" input
MaxText == 4
MaxItems == 2
MaxLive == 3
MaxChildren == 3
MaxInner == 3
MaxAdded == 2
MaxSeries == 2
MaxPoints == 2
MaxBars == 2
MaxSegments == 2
MaxBarHeight == 3
MaxNodes == 3
MaxRows == 3
MaxInnerDy == 2
MaxRenderItems == 2

\* ------------------------------------------------------- style model
ColorClear == -1
ColorRed == 1
ColorBlue == 4
ColorBlack == 0
ModifierClear == 0
ModifierBold == 512

StyleClear == [Fg |-> ColorClear, Bg |-> ColorClear, Modifier |-> ModifierClear]

\* ------------------------------------------------------- geometry
\* the plane is one row high: every rectangle spans y in [0,1)
Xs == 0 .. (MaxX - 1)
Ys == {0}
Points == Xs \X Ys

Rect(x0, y0, x1, y1) == [minX |-> x0, minY |-> y0, maxX |-> x1, maxY |-> y1]

\* image.Point.In
PtIn(p, r) == /\ r.minX <= p[1] /\ p[1] < r.maxX
              /\ r.minY <= p[2] /\ p[2] < r.maxY

PointsIn(r) == {p \in Points : PtIn(p, r)}

\* the non-empty rectangles of the plane (widget and buffer rectangles)
Rects == {Rect(a, 0, b, 1) : <<a, b>> \in {ab \in Xs \X (1 .. MaxX) : ab[1] < ab[2]}}

\* image.Rect(0, 0, w, h): the terminal sizes, one row high
TermRects == {Rect(0, 0, w, 1) : w \in 1 .. MaxX}

RectInside(r, s) == /\ s.minX <= r.minX /\ r.maxX <= s.maxX
                    /\ s.minY <= r.minY /\ r.maxY <= s.maxY

\* ------------------------------------------------------- cells and buffers
Cell(r, st) == [Rune |-> r, Style |-> st]
CellClear == Cell(" ", StyleClear)

\* the cells a widget paints: its data selects the glyph
Glyphs == {"a", "b"}
GlyphCell(g) == Cell(g, [Fg |-> IF g = "a" THEN ColorRed ELSE ColorBlue,
                         Bg |-> ColorClear, Modifier |-> ModifierClear])
Cells == {CellClear} \cup {GlyphCell(g) : g \in Glyphs}

EmptyMap == [p \in {} |-> CellClear]

\* m with the entries of n written over it (CellMap[p] = c for every entry of n)
Merge(m, n) == [p \in DOMAIN m \cup DOMAIN n |-> IF p \in DOMAIN n THEN n[p] ELSE m[p]]
Restrict(m, S) == [p \in DOMAIN m \cap S |-> m[p]]

\* Buffer.Fill: the same cell at every point of rect
Fill(cells, c, r) == Merge(cells, [p \in PointsIn(r) |-> c])

\* NewBuffer: the rectangle with every point of it set to CellClear
NewBuffer(r) == [rect |-> r, cells |-> Fill(EmptyMap, CellClear, r)]

\* Buffer.SetCell: no bounds check
SetCell(b, c, p) == [b EXCEPT !.cells = Merge(b.cells, [q \in {p} |-> c])]

\* ------------------------------------------------------- FrameBuffer
cellsEqual(a, b) == /\ a.Rune = b.Rune
                    /\ a.Style.Fg = b.Style.Fg
                    /\ a.Style.Bg = b.Style.Bg
                    /\ a.Style.Modifier = b.Style.Modifier

\* a Diff that takes every cell of the Buffer, in its rectangle or not
DiffUnfiltered(cm, current) ==
    [changed |-> [p \in {q \in DOMAIN current.cells :
                            q \notin DOMAIN cm \/ ~cellsEqual(cm[q], current.cells[q])}
                     |-> current.cells[p]],
     removed |-> {p \in DOMAIN cm : p \notin DOMAIN current.cells /\ PtIn(p, current.rect)}]

\* FrameBuffer.Diff: changed is a map, removed a list used as a set
Diff(cm, current) ==
    LET currentCells == {p \in DOMAIN current.cells : PtIn(p, current.rect)}
    IN  [changed |-> [p \in {q \in currentCells :
                                q \notin DOMAIN cm \/ ~cellsEqual(cm[q], current.cells[q])}
                         |-> current.cells[p]],
         removed |-> {p \in DOMAIN cm : p \notin currentCells /\ PtIn(p, current.rect)}]

\* FrameBuffer.Update: the cache after merging b and evicting
Update(cm, bnds, b) ==
    LET merged == Merge(cm, Restrict(b.cells, {p \in DOMAIN b.cells : PtIn(p, b.rect)}))
    IN  Restrict(merged, {p \in DOMAIN merged : ~(~PtIn(p, b.rect) /\ PtIn(p, bnds))})

\* a Resize that tests only the upper corner of the new bounds
ResizeMaxOnly(cm, newB) ==
    Restrict(cm, {p \in DOMAIN cm : p[1] < newB.maxX /\ p[2] < newB.maxY})

\* FrameBuffer.Resize: the cache after dropping the points outside the new bounds
Resize(cm, newBounds) == Restrict(cm, {p \in DOMAIN cm : PtIn(p, newBounds)})

\* FrameBuffer.Clear
FrameBufferClear == EmptyMap

\* ------------------------------------------------------- terminal backend
\* what tb.SetCell receives for a cell: rune, fg attribute (with the modifier
\* bits or-ed in) and bg attribute; ColorClear becomes tb.ColorDefault = 0
TbColorDefault == 0
TbAttr(color) == IF color = ColorClear THEN TbColorDefault ELSE color + 1
TbCell(c) == [Ch |-> c.Rune,
              Fg |-> TbAttr(c.Style.Fg) + c.Style.Modifier,
              Bg |-> TbAttr(c.Style.Bg)]

\* a backend cell nothing was written to
TbBlank == [Ch |-> " ", Fg |-> TbColorDefault, Bg |-> TbColorDefault]

\* background of the active theme (the dark theme registered as default)
ThemeDefaultBg == ColorBlack

\* draw.Clear: tb.Clear(ColorDefault, bgColor) sets every backend cell
ClearedCell == [Ch |-> " ", Fg |-> TbColorDefault,
                Bg |-> IF ThemeDefaultBg # ColorClear THEN ThemeDefaultBg + 1
                       ELSE TbColorDefault]

\* ------------------------------------------------------- state
Widgets == {"w1", "w2"}
NoRect == Rect(0, 0, 0, 0)
NoBuffer == [rect |-> NoRect, cells |-> EmptyMap]
NoDiff == [changed |-> EmptyMap, removed |-> {}]
\* the cell a widget sets outside its rectangle, and the places it may do so:
\* the points of the plane and one point right of it
NoPoint == <<-1, -1>>
StrayCell == Cell("s", [Fg |-> ColorRed, Bg |-> ColorClear, Modifier |-> ModifierClear])
StrayPoints == Points \cup {<<MaxX, 0>>}

VARIABLES
    cache,       \* FrameBuffer.CellMap
    bounds,      \* FrameBuffer.Bounds
    rect,        \* renderer: widget -> its rectangle (Drawable.GetRect)
    data,        \* renderer: widget -> the glyph its Draw paints
    screen,      \* renderer: backend cell buffer, point of the terminal -> tb cell
    lastList,    \* renderer: the widgets of the last Render in argument order, <<>> when
                 \*   the last operation was not Render
    writes,      \* renderer: the tb.SetCell calls of the last Render, <<point, tb cell>>
    again,       \* renderer: the last Render repeated the Render right before it
    cleared,     \* SpecClear: draw.Clear was the last operation (or the one before the
                 \*   last Render)
    drawnRect,   \* SpecShrink: widget -> rectangle it had in the last Render (NoRect: none)
    owed,        \* SpecShrink: points a shrunk widget left behind in the last Render
    lastOp,      \* SpecFB: name of the last FrameBuffer method called
    buf,         \* SpecFB: the Buffer the caller holds
    pre,         \* SpecFB: FrameBuffer.CellMap before the last Update or Resize
    newBounds,   \* SpecFB: the argument of the last Resize
    diffOut,     \* SpecFB: what the last Diff returned
    afterUpdate, \* SpecFB: the last Diff came right after Update of the same Buffer
    input,       \* SpecParse: the runes of s, the argument of ParseStyles
    defaultStyle,\* SpecParse: the defaultStyle argument of ParseStyles
    pos,         \* SpecParse: number of runes the main loop has consumed
    parser,      \* SpecParse: the locals state, styledText, styleItems, bracketDepth, cells
    done,        \* SpecParse: ParseStyles has returned parser.cells
    ltree,       \* SpecLayout: the argument of the last Layout.Set
    litems,      \* SpecLayout: Layout.Items, the leaves with their resolved ratios
    linner,      \* SpecLayout: Layout.Inner
    lplaced,     \* SpecLayout: per item, the rectangle Draw passed to SetRect
    lastLayoutOp, \* SpecLayout: the last Layout method called
    krect,       \* SpecLock: each widget's Rectangle, as memory holds it
    mutex,       \* SpecLock: each widget's sync.Mutex: free, or who holds it
    rpc,         \* SpecLock: where Render's first loop is
    rbufRect,    \* SpecLock: the rectangle of the Buffer Render allocated
    mpc,         \* SpecLock: where the thread that moves widgets is
    wkind,       \* SpecWidgets: the widget at hand, Plot or Table
    wdata,       \* SpecWidgets: Plot.Data or Table.Rows
    wparam,      \* SpecWidgets: Plot.MaxVal or Table.ColumnWidths
    wheight,     \* SpecWidgets: Table.Inner.Dy()
    wresult,     \* SpecWidgets: what the last Draw came to
    stray,       \* SpecStray: widget -> the point outside its rectangle where its Draw
                 \*   also writes a cell (NoPoint: nowhere)
    enabled,     \* SpecStray: Renderer.enabled, diff-based rendering is on
    skind,       \* SpecScroll: the widget at hand, List or Tree
    nodes,       \* SpecScroll: Tree.nodes with the fields of every TreeNode
    rows,        \* SpecScroll: Tree.rows as node names, or the indexes of List.Rows
    SelectedRow, \* SpecScroll: List.SelectedRow or Tree.SelectedRow
    topRow,      \* SpecScroll: List.topRow or Tree.topRow
    innerDy,     \* SpecScroll: Inner.Dy()
    drawn,       \* SpecScroll: the last operation was Draw
    panicked,    \* SpecScroll: an operation indexed outside the rows and panicked
    locks,       \* SpecRender: the sync.Mutex of the layout and of each widget: free, or
                 \*   who holds it
    render,      \* SpecRender: where the goroutine in Renderer.Render is
    mutator,     \* SpecRender: the widget whose lock another goroutine holds, or "none"
    faulty,      \* SpecRender: the widgets whose Draw panics on the data they hold
    lkids        \* SpecRender: the Drawables of the layout's Items, in order

rvars == <<rect, data, screen, lastList, writes, again>>
tvars == <<cleared, drawnRect, owed>>
fvars == <<lastOp, buf, pre, newBounds, diffOut, afterUpdate>>
pvars == <<input, defaultStyle, pos, parser, done>>
lvars == <<ltree, litems, linner, lplaced, lastLayoutOp>>
kvars == <<krect, mutex, rpc, rbufRect, mpc>>
wvars == <<wkind, wdata, wparam, wheight, wresult>>
svars == <<stray, enabled>>
scvars == <<skind, nodes, rows, SelectedRow, topRow, innerDy, drawn, panicked>>
gvars == <<locks, render, mutator, faulty, lkids>>
evars == <<lvars, kvars, wvars, svars, scvars, gvars>>
basevars == <<cache, bounds, rvars, tvars, fvars, pvars, svars, gvars>>
vars == <<cache, bounds, rvars, tvars, fvars, pvars, evars>>

\* the layout before NewLayout
LayoutIdle ==
    /\ ltree = <<>> /\ litems = <<>> /\ linner = Rect(0, 0, 0, 0)
    /\ lplaced = <<>> /\ lastLayoutOp = "none"
\* no Render under way and no other thread
LockIdle ==
    /\ krect = [w \in Widgets |-> NoRect]
    /\ mutex = [w \in Widgets |-> "free"]
    /\ rpc = [items |-> <<>>, i |-> 0, at |-> "idle"]
    /\ rbufRect = NoRect
    /\ mpc = [at |-> "idle", w |-> "w1", newRect |-> NoRect]
\* no widget at hand
WidgetIdle ==
    /\ wkind = "none" /\ wdata = <<>> /\ wparam = 0 /\ wheight = 0
    /\ wresult = [outcome |-> "none", wrote |-> FALSE]
\* widgets that keep to their rectangles, rendered by a Renderer of NewRenderer
StrayIdle == stray = [w \in Widgets |-> NoPoint] /\ enabled = TRUE
\* a Tree's nodes: count nodes named 1 .. count, the root nodes in order, per
\* node its children in order, its Expanded flag and its level field
TreeOf(count, roots, Nodes, Expanded) ==
    [count |-> count, roots |-> roots, Nodes |-> Nodes, Expanded |-> Expanded,
     level |-> [i \in 1 .. count |-> 0]]
NoNodes == TreeOf(0, <<>>, <<>>, <<>>)
\* no List and no Tree at hand
ScrollIdle ==
    /\ skind = "none" /\ nodes = NoNodes /\ rows = <<>>
    /\ SelectedRow = 0 /\ topRow = 0 /\ innerDy = 0
    /\ drawn = FALSE /\ panicked = FALSE
\* what Render can be given: the two widgets and a layout
Lockables == Widgets \cup {"layout"}
\* where Render is: at statement at of item i of items, child j of the layout
RenderPos(items, i, at, j) == [items |-> items, i |-> i, at |-> at, j |-> j]
\* no Render under way, no other goroutine, a layout without items
RenderIdle ==
    /\ locks = [x \in Lockables |-> "free"]
    /\ render = RenderPos(<<>>, 0, "idle", 0)
    /\ mutator = "none" /\ faulty = {} /\ lkids = <<>>
ExtIdle == LayoutIdle /\ LockIdle /\ WidgetIdle /\ StrayIdle /\ ScrollIdle /\ RenderIdle

\* ------------------------------------------------------- Renderer
\* a widget's Draw into the fresh buffer: the widget fills its rectangle, and
\* a widget with a stray point outside the buffer's rectangle sets a cell there
Draw(w, b) ==
    LET filled == [b EXCEPT !.cells = Fill(b.cells, GlyphCell(data[w]), rect[w])]
    IN  IF stray[w] # NoPoint /\ ~PtIn(stray[w], b.rect)
        THEN SetCell(filled, StrayCell, stray[w])
        ELSE filled

\* Render, first loop: one buffer per widget, in argument order
Buffers(items) == [i \in 1 .. Len(items) |-> Draw(items[i], NewBuffer(rect[items[i]]))]

\* Render, second loop: Diff then Update per buffer, accumulating the two sets
RECURSIVE DiffAll(_, _, _, _)
DiffAll(bufs, cm, changedSet, removedSet) ==
    IF bufs = <<>> THEN [cache |-> cm, changedSet |-> changedSet, removedSet |-> removedSet]
    ELSE LET d == Diff(cm, Head(bufs))
         IN  DiffAll(Tail(bufs), Update(cm, bounds, Head(bufs)),
                     Merge(changedSet, d.changed), removedSet \cup d.removed)

\* Render, the SetCell calls: changed cells first, then removed cells as CellClear
ChangedWrites(r) == {<<p, TbCell(r.changedSet[p])>> :
                        p \in {q \in DOMAIN r.changedSet : PtIn(q, bounds)}}
RemovedWrites(r) == {<<p, TbCell(CellClear)>> : p \in {q \in r.removedSet : PtIn(q, bounds)}}

\* renderCell over both loops: the backend after the SetCell calls
renderCell(scr, r) ==
    [p \in DOMAIN scr |->
        IF p \in r.removedSet /\ PtIn(p, bounds) THEN TbCell(CellClear)
        ELSE IF p \in DOMAIN r.changedSet /\ PtIn(p, bounds) THEN TbCell(r.changedSet[p])
        ELSE scr[p]]

\* the argument lists of Render: one widget, or two in either order
ItemLists == {<<w>> : w \in Widgets}
             \cup {<<vw[1], vw[2]>> : vw \in {x \in Widgets \X Widgets : x[1] # x[2]}}

Covers(w, p) == PtIn(p, rect[w])
InList(w, items) == \E i \in 1 .. Len(items) : items[i] = w

\* Renderer.Render without the bookkeeping of SpecClear and SpecShrink
RenderCore(items) ==
    LET r == DiffAll(Buffers(items), cache, EmptyMap, {})
    IN  /\ cache' = r.cache
        /\ screen' = renderCell(screen, r)
        /\ writes' = ChangedWrites(r) \cup RemovedWrites(r)
        /\ lastList' = items
        /\ again' = (lastList = items)
        /\ UNCHANGED <<rect, data, bounds, fvars, pvars, evars>>

Render(items) == RenderCore(items) /\ UNCHANGED tvars

\* the terminal is resized and the handler calls Renderer.Resize(w, h)
RendererResize(b) ==
    /\ b # bounds
    /\ cache' = Resize(cache, b)
    /\ bounds' = b
    /\ screen' = [p \in PointsIn(b) |-> IF p \in DOMAIN screen THEN screen[p] ELSE TbBlank]
    /\ lastList' = <<>> /\ writes' = {} /\ again' = FALSE
    /\ cleared' = FALSE /\ owed' = {}
    /\ UNCHANGED <<rect, data, drawnRect, fvars, pvars, evars>>

\* the caller moves or resizes a widget
SetRect(w, r) ==
    /\ r # rect[w]
    /\ rect' = [rect EXCEPT ![w] = r]
    /\ lastList' = <<>> /\ writes' = {} /\ again' = FALSE
    /\ cleared' = FALSE /\ owed' = {}
    /\ UNCHANGED <<data, cache, bounds, screen, drawnRect, fvars, pvars, evars>>

\* the caller changes a widget's data
SetData(w, g) ==
    /\ g # data[w]
    /\ data' = [data EXCEPT ![w] = g]
    /\ lastList' = <<>> /\ writes' = {} /\ again' = FALSE
    /\ cleared' = FALSE /\ owed' = {}
    /\ UNCHANGED <<rect, cache, bounds, screen, drawnRect, fvars, pvars, evars>>

FBIdle ==
    /\ lastOp = "-" /\ buf = NoBuffer /\ pre = EmptyMap /\ newBounds = NoRect
    /\ diffOut = NoDiff /\ afterUpdate = FALSE

ParserStart ==
    [state |-> "Default", styledText |-> <<>>, styleItems |-> <<>>,
     bracketDepth |-> 0, cells |-> <<>>]

ParseIdle ==
    /\ input = <<>> /\ defaultStyle = StyleClear /\ pos = 0
    /\ parser = ParserStart /\ done = FALSE

\* NewRenderer on a terminal of any size, widgets constructed by the caller
Init ==
    /\ rect \in [Widgets -> Rects]
    /\ data \in [Widgets -> Glyphs]
    /\ cache = EmptyMap
    /\ bounds \in TermRects
    /\ screen = [p \in PointsIn(bounds) |-> TbBlank]
    /\ lastList = <<>> /\ writes = {} /\ again = FALSE
    /\ cleared = FALSE
    /\ drawnRect = [w \in Widgets |-> NoRect]
    /\ owed = {}
    /\ FBIdle
    /\ ExtIdle
    /\ ParseIdle

Next ==
    \/ \E items \in ItemLists : Render(items)
    \/ \E b \in TermRects : RendererResize(b)
    \/ \E w \in Widgets, r \in Rects : SetRect(w, r)
    \/ \E w \in Widgets, g \in Glyphs : SetData(w, g)

Spec == Init /\ [][Next]_vars

\* ---- SpecClear: the caller may also issue draw.Clear
\* draw.Clear: the backend is cleared, the FrameBuffer is not touched
Clear ==
    /\ ~cleared
    /\ screen' = [p \in DOMAIN screen |-> ClearedCell]
    /\ cleared' = TRUE
    /\ lastList' = <<>> /\ writes' = {} /\ again' = FALSE
    /\ UNCHANGED <<rect, data, cache, bounds, drawnRect, owed, fvars, pvars, evars>>

RenderAfterClear(items) ==
    /\ RenderCore(items)
    /\ cleared' = (cleared /\ lastList = <<>>)
    /\ UNCHANGED <<drawnRect, owed>>

NextClear ==
    \/ \E items \in ItemLists : RenderAfterClear(items)
    \/ \E b \in TermRects : RendererResize(b)
    \/ \E w \in Widgets, r \in Rects : SetRect(w, r)
    \/ \E w \in Widgets, g \in Glyphs : SetData(w, g)
    \/ Clear

SpecClear == Init /\ [][NextClear]_vars

\* ---- SpecShrink: Render also records the rectangles of the frame
\* points of the terminal that a widget of items covered in the Render before
\* with a larger rectangle, that it no longer covers and no widget of items covers
LeftBehind(items) ==
    {p \in PointsIn(bounds) :
        /\ \E w \in Widgets : /\ InList(w, items)
                              /\ drawnRect[w] # NoRect
                              /\ RectInside(rect[w], drawnRect[w])
                              /\ PtIn(p, drawnRect[w])
        /\ \A w \in Widgets : InList(w, items) => ~Covers(w, p)}

RenderFrame(items) ==
    /\ RenderCore(items)
    /\ drawnRect' = [w \in Widgets |-> IF InList(w, items) THEN rect[w] ELSE NoRect]
    /\ owed' = LeftBehind(items)
    /\ UNCHANGED cleared

NextShrink ==
    \/ \E items \in ItemLists : RenderFrame(items)
    \/ \E b \in TermRects : RendererResize(b)
    \/ \E w \in Widgets, r \in Rects : SetRect(w, r)
    \/ \E w \in Widgets, g \in Glyphs : SetData(w, g)

SpecShrink == Init /\ [][NextShrink]_vars

\* ---- SpecStray: widgets that also write outside their rectangle, rendered in
\* diff mode or by the full redraw
RECURSIVE fullRedraw(_, _, _)
\* renderFull, the loop over the items: per buffer a tb.SetCell for every cell
\* inside the buffer's rectangle; the backend keeps those on the terminal
fullRedraw(bufs, scr, ws) ==
    IF bufs = <<>> THEN [screen |-> scr, writes |-> ws]
    ELSE LET b == Head(bufs)
             inRect == {p \in DOMAIN b.cells : PtIn(p, b.rect)}
         IN  fullRedraw(Tail(bufs),
                        [p \in DOMAIN scr |-> IF p \in inRect THEN TbCell(b.cells[p])
                                                ELSE scr[p]],
                        ws \cup {<<p, TbCell(b.cells[p])>> : p \in inRect})

\* renderFull(items...)
renderFull(items) ==
    LET r == fullRedraw(Buffers(items), screen, {})
    IN  /\ screen' = r.screen
        /\ writes' = r.writes
        /\ lastList' = items
        /\ again' = (lastList = items)
        /\ UNCHANGED <<cache, rect, data, bounds, tvars, fvars, pvars, evars>>

\* Renderer.Render with its fallback
RendererRender(items) == IF enabled THEN Render(items) ELSE renderFull(items)

\* the caller makes a widget write outside its rectangle, or stop doing so
\* (the first widget is the one that can; the second keeps to its rectangle)
SetStray(w, p) ==
    /\ p # stray[w]
    /\ stray' = [stray EXCEPT ![w] = p]
    /\ lastList' = <<>> /\ writes' = {} /\ again' = FALSE
    /\ UNCHANGED <<enabled, rect, data, cache, bounds, screen, tvars, fvars, pvars,
                   lvars, kvars, wvars, scvars, gvars>>

\* a Renderer with diff-based rendering on or off, widgets that write a first
\* and a second glyph, each at the rectangle the caller gave it
InitStray ==
    /\ rect \in [Widgets -> Rects]
    /\ data = [w \in Widgets |-> IF w = "w1" THEN "a" ELSE "b"]
    /\ cache = EmptyMap
    /\ bounds \in TermRects
    /\ screen = [p \in PointsIn(bounds) |-> TbBlank]
    /\ lastList = <<>> /\ writes = {} /\ again = FALSE
    /\ cleared = FALSE
    /\ drawnRect = [w \in Widgets |-> NoRect]
    /\ owed = {}
    /\ stray = [w \in Widgets |-> NoPoint]
    /\ enabled \in BOOLEAN
    /\ FBIdle /\ ParseIdle
    /\ LayoutIdle /\ LockIdle /\ WidgetIdle
    /\ ScrollIdle /\ RenderIdle

NextStray ==
    \/ \E items \in ItemLists : RendererRender(items)
    \/ \E b \in TermRects : RendererResize(b)
    \/ \E p \in StrayPoints \cup {NoPoint} : SetStray("w1", p)

SpecStray == InitStray /\ [][NextStray]_vars

\* ---- SpecFB: the FrameBuffer methods called directly
\* the cells a caller of the FrameBuffer puts in a Buffer
FBCells == {CellClear, GlyphCell("a")}

Idle == /\ rect = [w \in Widgets |-> NoRect]
        /\ data = [w \in Widgets |-> "a"]
        /\ screen = EmptyMap
        /\ lastList = <<>> /\ writes = {} /\ again = FALSE
        /\ cleared = FALSE
        /\ drawnRect = [w \in Widgets |-> NoRect]
        /\ owed = {}

\* NewFrameBuffer(bounds)
InitFB ==
    /\ cache = EmptyMap
    /\ bounds \in Rects
    /\ FBIdle
    /\ ExtIdle
    /\ Idle
    /\ ParseIdle

\* the caller makes a Buffer with NewBuffer(r)
MakeBuffer(r) ==
    /\ buf' = NewBuffer(r)
    /\ lastOp' = "-" /\ pre' = EmptyMap /\ newBounds' = NoRect
    /\ diffOut' = NoDiff /\ afterUpdate' = FALSE
    /\ UNCHANGED <<cache, bounds, rvars, tvars, pvars, evars>>

\* the caller makes a Buffer value with an empty CellMap (the fields are exported)
BufferLiteral(r) ==
    /\ buf' = [rect |-> r, cells |-> EmptyMap]
    /\ lastOp' = "-" /\ pre' = EmptyMap /\ newBounds' = NoRect
    /\ diffOut' = NoDiff /\ afterUpdate' = FALSE
    /\ UNCHANGED <<cache, bounds, rvars, tvars, pvars, evars>>

\* Buffer.SetCell at any point, inside the rectangle or not
BufferSetCell(c, p) ==
    /\ buf # NoBuffer
    /\ buf' = SetCell(buf, c, p)
    /\ buf' # buf
    /\ lastOp' = "-" /\ pre' = EmptyMap /\ newBounds' = NoRect
    /\ diffOut' = NoDiff /\ afterUpdate' = FALSE
    /\ UNCHANGED <<cache, bounds, rvars, tvars, pvars, evars>>

\* FrameBuffer.Update(buf)
FBUpdate ==
    /\ buf # NoBuffer
    /\ cache' = Update(cache, bounds, buf)
    /\ pre' = cache
    /\ lastOp' = "Update" /\ newBounds' = NoRect
    /\ diffOut' = NoDiff /\ afterUpdate' = FALSE
    /\ UNCHANGED <<bounds, buf, rvars, tvars, pvars, evars>>

\* FrameBuffer.Diff(buf)
FBDiff ==
    /\ buf # NoBuffer
    /\ diffOut' = Diff(cache, buf)
    /\ afterUpdate' = (lastOp = "Update")
    /\ lastOp' = "Diff" /\ pre' = EmptyMap /\ newBounds' = NoRect
    /\ UNCHANGED <<cache, bounds, buf, rvars, tvars, pvars, evars>>

\* FrameBuffer.Resize(b); the caller's Buffer is dropped
FBResize(b) ==
    /\ cache' = Resize(cache, b)
    /\ bounds' = b
    /\ pre' = cache
    /\ newBounds' = b
    /\ lastOp' = "Resize" /\ buf' = NoBuffer /\ diffOut' = NoDiff /\ afterUpdate' = FALSE
    /\ UNCHANGED <<rvars, tvars, pvars, evars>>

\* FrameBuffer.Clear; the caller's Buffer is dropped
FBClear ==
    /\ cache # EmptyMap
    /\ cache' = FrameBufferClear
    /\ lastOp' = "Clear" /\ pre' = EmptyMap /\ newBounds' = NoRect /\ buf' = NoBuffer
    /\ diffOut' = NoDiff /\ afterUpdate' = FALSE
    /\ UNCHANGED <<bounds, rvars, tvars, pvars, evars>>

NextFB ==
    \/ \E r \in Rects : MakeBuffer(r)
    \/ \E r \in Rects : BufferLiteral(r)
    \/ \E c \in FBCells, p \in Points : BufferSetCell(c, p)
    \/ FBUpdate
    \/ FBDiff
    \/ \E b \in Rects : FBResize(b)
    \/ FBClear

SpecFB == InitFB /\ [][NextFB]_vars

\* ------------------------------------------------------- style parser
\* ---- SpecParse: draw.ParseStyles, one step per rune of the main loop
tokenBeginStyledText == "["
tokenEndStyledText == "]"
tokenBeginStyle == "("
tokenEndStyle == ")"
tokenItemSeparator == ","
tokenValueSeparator == ":"
tokenFg == <<"f", "g">>
tokenBg == <<"b", "g">>
tokenModifier == <<"m", "o", "d">>

ModifierUnderline == 1024
ModifierReverse == 2048
ColorGreen == 2
ColorYellow == 3
ColorMagenta == 5
ColorCyan == 6
ColorWhite == 7

\* ColorMap and ModifierMap, keyed by the runes of the name
ColorMap ==
    {<< <<"r", "e", "d">>, ColorRed >>,
     << <<"b", "l", "u", "e">>, ColorBlue >>,
     << <<"b", "l", "a", "c", "k">>, ColorBlack >>,
     << <<"c", "y", "a", "n">>, ColorCyan >>,
     << <<"y", "e", "l", "l", "o", "w">>, ColorYellow >>,
     << <<"w", "h", "i", "t", "e">>, ColorWhite >>,
     << <<"c", "l", "e", "a", "r">>, ColorClear >>,
     << <<"g", "r", "e", "e", "n">>, ColorGreen >>,
     << <<"m", "a", "g", "e", "n", "t", "a">>, ColorMagenta >>}
ModifierMap ==
    {<< <<"b", "o", "l", "d">>, ModifierBold >>,
     << <<"u", "n", "d", "e", "r", "l", "i", "n", "e">>, ModifierUnderline >>,
     << <<"r", "e", "v", "e", "r", "s", "e">>, ModifierReverse >>}

Has(map, key) == \E e \in map : e[1] = key
Lookup(map, key) == (CHOOSE e \in map : e[1] = key)[2]

\* strings.ToLower on the letters the inputs use
LowerRune(r) ==
    CASE r = "R" -> "r" [] r = "E" -> "e" [] r = "D" -> "d"
      [] r = "F" -> "f" [] r = "G" -> "g" [] OTHER -> r
ToLower(str) == [k \in 1 .. Len(str) |-> LowerRune(str[k])]

\* strings.TrimSpace
RECURSIVE TrimLeft(_)
TrimLeft(str) == IF str # <<>> /\ Head(str) = " " THEN TrimLeft(Tail(str)) ELSE str
RECURSIVE TrimRight(_)
TrimRight(str) ==
    IF str # <<>> /\ str[Len(str)] = " " THEN TrimRight(SubSeq(str, 1, Len(str) - 1))
    ELSE str
TrimSpace(str) == TrimRight(TrimLeft(str))

\* strings.Split on a one-rune separator
RECURSIVE Split(_, _)
Split(str, sep) ==
    IF \A k \in 1 .. Len(str) : str[k] # sep THEN <<str>>
    ELSE LET k == CHOOSE j \in 1 .. Len(str) :
                      str[j] = sep /\ \A h \in 1 .. (j - 1) : str[h] # sep
         IN  <<SubSeq(str, 1, k - 1)>> \o Split(SubSeq(str, k + 1, Len(str)), sep)

\* parseStyleString, one item applied to the style built so far
applyItem(style, rawItem) ==
    LET parts == Split(TrimSpace(rawItem), tokenValueSeparator)
    IN  IF Len(parts) # 2 THEN style
        ELSE LET key == TrimSpace(parts[1])
                 value == ToLower(TrimSpace(parts[2]))
             IN  CASE key = tokenFg /\ Has(ColorMap, value) ->
                         [style EXCEPT !.Fg = Lookup(ColorMap, value)]
                   [] key = tokenBg /\ Has(ColorMap, value) ->
                         [style EXCEPT !.Bg = Lookup(ColorMap, value)]
                   [] key = tokenModifier /\ Has(ModifierMap, value) ->
                         [style EXCEPT !.Modifier = Lookup(ModifierMap, value)]
                   [] OTHER -> style

RECURSIVE applyItems(_, _)
applyItems(style, items) ==
    IF items = <<>> THEN style ELSE applyItems(applyItem(style, Head(items)), Tail(items))

\* a parse that stops after the first item of the spec
parseFirstItemOnly(styleStr, dflt) ==
    applyItems(dflt, <<Head(Split(styleStr, tokenItemSeparator))>>)

parseStyleString(styleStr, dflt) == applyItems(dflt, Split(styleStr, tokenItemSeparator))

runesToCells(runes, style) == [k \in 1 .. Len(runes) |-> Cell(runes[k], style)]

\* a chop that keeps the brackets
chopNothing(r) == r

\* chop: drop the first and the last rune
chop(r) == IF Len(r) < 2 THEN r ELSE SubSeq(r, 2, Len(r) - 1)

\* a reset that empties the buffers and leaves state and depth as they are
resetBuffersOnly(ps) == [ps EXCEPT !.styledText = <<>>, !.styleItems = <<>>]

reset(ps) == [ps EXCEPT !.styledText = <<>>, !.styleItems = <<>>,
                        !.state = "Default", !.bracketDepth = 0]

\* a rollback that throws the buffered runes away
rollbackDrop(ps, dflt) == reset(ps)

rollback(ps, dflt) ==
    reset([ps EXCEPT !.cells = ps.cells \o runesToCells(ps.styledText, dflt)
                                        \o runesToCells(ps.styleItems, dflt)])

\* the rune the loop is at, and whether it is the last one (i == len(runes)-1)
Cur == input[pos + 1]
AtLast == pos + 1 = Len(input)

openSpan(ps, r) == [ps EXCEPT !.state = "StyledText", !.bracketDepth = 1,
                              !.styledText = Append(ps.styledText, r)]
\* a plain cell that takes StyleClear, not the caller's default style
plainCellClear(ps, r, dflt) == [ps EXCEPT !.cells = Append(ps.cells, Cell(r, StyleClear))]
plainCell(ps, r, dflt) == [ps EXCEPT !.cells = Append(ps.cells, Cell(r, dflt))]

\* case ParserStateDefault
stepDefault(ps, r, dflt) ==
    IF r = tokenBeginStyledText THEN openSpan(ps, r) ELSE plainCell(ps, r, dflt)

\* case ParserStateStyledText
stepStyledText(ps, r, last, dflt) ==
    CASE ps.bracketDepth = 0 ->
            IF r = tokenBeginStyle
            THEN [ps EXCEPT !.state = "StyleItems", !.styleItems = Append(ps.styleItems, r)]
            ELSE stepDefault(rollback(ps, dflt), r, dflt)
      [] ps.bracketDepth # 0 /\ last -> rollback(ps, dflt)
      [] ps.bracketDepth # 0 /\ ~last /\ r = tokenBeginStyledText ->
            [ps EXCEPT !.bracketDepth = ps.bracketDepth + 1,
                       !.styledText = Append(ps.styledText, r)]
      [] ps.bracketDepth # 0 /\ ~last /\ r = tokenEndStyledText ->
            [ps EXCEPT !.bracketDepth = ps.bracketDepth - 1,
                       !.styledText = Append(ps.styledText, r)]
      [] OTHER -> [ps EXCEPT !.styledText = Append(ps.styledText, r)]

\* case ParserStateStyleItems
stepStyleItems(ps, r, last, dflt) ==
    LET ps1 == [ps EXCEPT !.styleItems = Append(ps.styleItems, r)]
    IN  IF r = tokenEndStyle
        THEN reset([ps1 EXCEPT !.cells = ps1.cells \o
                        runesToCells(chop(ps1.styledText),
                                     parseStyleString(chop(ps1.styleItems), dflt))])
        ELSE IF last THEN rollback(ps1, dflt) ELSE ps1

StepDefault ==
    /\ ~done /\ pos < Len(input) /\ parser.state = "Default"
    /\ parser' = stepDefault(parser, Cur, defaultStyle)
    /\ pos' = pos + 1
    /\ UNCHANGED <<input, defaultStyle, done, cache, bounds, rvars, tvars, fvars, evars>>

StepStyledText ==
    /\ ~done /\ pos < Len(input) /\ parser.state = "StyledText"
    /\ parser' = stepStyledText(parser, Cur, AtLast, defaultStyle)
    /\ pos' = pos + 1
    /\ UNCHANGED <<input, defaultStyle, done, cache, bounds, rvars, tvars, fvars, evars>>

StepStyleItems ==
    /\ ~done /\ pos < Len(input) /\ parser.state = "StyleItems"
    /\ parser' = stepStyleItems(parser, Cur, AtLast, defaultStyle)
    /\ pos' = pos + 1
    /\ UNCHANGED <<input, defaultStyle, done, cache, bounds, rvars, tvars, fvars, evars>>

\* after the loop (or at once for the empty string): roll back what is left, return
Return ==
    /\ ~done /\ pos = Len(input)
    /\ parser' = IF parser.state # "Default" THEN rollback(parser, defaultStyle) ELSE parser
    /\ done' = TRUE
    /\ UNCHANGED <<input, defaultStyle, pos, cache, bounds, rvars, tvars, fvars, evars>>

\* inputs: every string of at most MaxInput runes over the markup runes and a
\* letter, and every "[T](fg:red)" with T balanced of at most MaxText runes
Alphabet == {"[", "]", "(", ")", "a"}
SeqsUpTo(S, n) == UNION {[1 .. k -> S] : k \in 0 .. n}

RECURSIVE Depths(_, _)
\* the bracket depth after each rune of t, starting from depth d
Depths(t, d) ==
    IF t = <<>> THEN <<>>
    ELSE LET e == IF Head(t) = "[" THEN d + 1 ELSE IF Head(t) = "]" THEN d - 1 ELSE d
         IN  <<e>> \o Depths(Tail(t), e)
Balanced(t) ==
    LET ds == Depths(t, 0)
    IN  /\ \A k \in 1 .. Len(ds) : ds[k] >= 0
        /\ (t # <<>> => ds[Len(ds)] = 0)

RedSpec == <<"]", "(", "f", "g", ":", "r", "e", "d", ")">>
WellFormedRed(t) == <<"[">> \o t \o RedSpec
Texts == {t \in SeqsUpTo(Alphabet, MaxText) : Balanced(t)}

\* a span that fails at bracket depth 0 right before a well-formed span
RollbackExample ==
    <<"[", "a", "]", "[", "b", "]", "(", "f", "g", ":", "r", "e", "d", ")">>

\* style items: the text of the item, and the attribute and value it names
\* when key and value are known ("none" when the item names nothing known)
StyleItem(text, attr, val) == [text |-> text, attr |-> attr, val |-> val]
StyleItemSet ==
    {StyleItem(<<"f", "g", ":", "r", "e", "d">>, "Fg", ColorRed),
     StyleItem(<<" ", "f", "g", " ", ":", " ", "R", "E", "D", " ">>, "Fg", ColorRed),
     StyleItem(<<"b", "g", ":", "b", "l", "u", "e">>, "Bg", ColorBlue),
     StyleItem(<<"m", "o", "d", ":", "b", "o", "l", "d">>, "Modifier", ModifierBold),
     StyleItem(<<"x", "x", ":", "r", "e", "d">>, "none", 0),
     StyleItem(<<"f", "g", ":", "z", "z">>, "none", 0),
     StyleItem(<<"m", "o", "d", ":", "z", "z">>, "none", 0),
     StyleItem(<<"b", "g">>, "none", 0)}
StyleItemLists == UNION {[1 .. k -> StyleItemSet] : k \in 1 .. MaxItems}
RECURSIVE JoinItems(_)
JoinItems(its) ==
    IF Len(its) = 1 THEN its[1].text
    ELSE its[1].text \o <<tokenItemSeparator>> \o JoinItems(Tail(its))
\* "[a](items)"
SpanWith(its) == <<"[", "a", "]", "(">> \o JoinItems(its) \o <<")">>

Inputs ==
    SeqsUpTo(Alphabet, MaxInput) \cup {WellFormedRed(t) : t \in Texts}
        \cup {RollbackExample} \cup {SpanWith(its) : its \in StyleItemLists}

DefaultStyles == {StyleClear,
                  [Fg |-> ColorBlue, Bg |-> ColorBlack, Modifier |-> ModifierBold]}

InitParse ==
    /\ input \in Inputs
    /\ defaultStyle \in DefaultStyles
    /\ pos = 0 /\ parser = ParserStart /\ done = FALSE
    /\ cache = EmptyMap /\ bounds = NoRect
    /\ Idle
    /\ FBIdle
    /\ ExtIdle

NextParse == StepDefault \/ StepStyledText \/ StepStyleItems \/ Return

SpecParse == InitParse /\ [][NextParse]_vars

\* ---- SpecParseLive: the same loop under fairness (a step that can be taken
\* is taken), on the inputs of at most MaxLive runes and one unfinished spec
LiveInputs == SeqsUpTo(Alphabet, MaxLive) \cup {<<"[", "a", "]", "(", "f", "g">>}
InitParseLive ==
    /\ input \in LiveInputs
    /\ defaultStyle \in DefaultStyles
    /\ pos = 0 /\ parser = ParserStart /\ done = FALSE
    /\ cache = EmptyMap /\ bounds = NoRect
    /\ Idle
    /\ FBIdle
    /\ ExtIdle
SpecParseLive == InitParseLive /\ [][NextParse]_vars /\ WF_vars(NextParse)

\* ------------------------------------------------------- Layout
\* ---- SpecLayout: Layout.Set, AddItem, SetRect and Draw
\* ratios are float64 in the source; the model holds them as multiples of
\* 1/Unit and draws them from the quarters, on which every product, halving
\* and sum below is exact in float64 as it is here
Unit == 2 ^ 12
\* a product that forgets its second factor
MulFirst(a, b) == a
Mul(a, b) == (a * b) \div Unit

LayoutItemTypes == {"Column", "Row"}
AlignLeft == 0
AlignCenter == 1
AlignRight == 2
Alignments == {AlignLeft, AlignCenter, AlignRight}

\* NewLayoutColumn / NewLayoutRow around a widget, around nested items, and a
\* widget passed as it is
LeafOf(type, ratio) == [kind |-> "leaf", type |-> type, ratio |-> ratio]
ContainerOf(type, ratio, kids) ==
    [kind |-> "container", type |-> type, ratio |-> ratio, kids |-> kids]
Drawable == [kind |-> "drawable"]

\* a resolved leaf of Layout.Items
Resolved(x, y, w, h, align) ==
    [XRatio |-> x, YRatio |-> y, WidthRatio |-> w, HeightRatio |-> h, Align |-> align]

\* a container ratio that is never halved
halveNever(ratio, mixed) == ratio

\* item.HeightRatio /= 2.0 (item.WidthRatio /= 2.0) once a child of the other
\* type has been met
halve(ratio, mixed) == IF mixed THEN ratio \div 2 ELSE ratio

RECURSIVE layoutHelper(_, _, _, _, _)
RECURSIVE layoutChildren(_, _, _)
\* the loop of layoutHelper over children[i..]: st holds the container's
\* ratios (halved as the loop goes) and xRatio, yRatio, hasColumns, hasRows
layoutChildren(children, i, st) ==
    IF i > Len(children) THEN <<>>
    ELSE LET child == children[i]
             n == Len(children)
         IN  IF child.kind = "drawable"
             THEN LET leafItem == Resolved(st.X + Mul(st.xRatio, st.W),
                                           st.Y + Mul(st.yRatio, st.H),
                                           st.W \div n, st.H \div n, AlignLeft)
                      st1 == IF st.type = "Column"
                             THEN [st EXCEPT !.xRatio = @ + (Unit \div n)]
                             ELSE [st EXCEPT !.yRatio = @ + (Unit \div n)]
                  IN  <<leafItem>> \o layoutChildren(children, i + 1, st1)
             ELSE LET childX == st.X + Mul(st.W, st.xRatio)
                      childY == st.Y + Mul(st.H, st.yRatio)
                      st1 == IF child.type = "Column"
                             THEN [st EXCEPT !.hasColumns = TRUE,
                                             !.xRatio = @ + child.ratio,
                                             !.H = halve(@, st.hasRows)]
                             ELSE [st EXCEPT !.hasRows = TRUE,
                                             !.yRatio = @ + child.ratio,
                                             !.W = halve(@, st.hasColumns)]
                  IN  layoutHelper(child, st1.W, st1.H, childX, childY)
                        \o layoutChildren(children, i + 1, st1)

layoutHelper(item, parentWidthRatio, parentHeightRatio, parentXRatio, parentYRatio) ==
    LET widthRatio == IF item.type = "Column" THEN item.ratio ELSE Unit
        heightRatio == IF item.type = "Column" THEN Unit ELSE item.ratio
        W == Mul(parentWidthRatio, widthRatio)
        H == Mul(parentHeightRatio, heightRatio)
    IN  IF item.kind = "leaf"
        THEN <<Resolved(parentXRatio, parentYRatio, W, H, AlignLeft)>>
        ELSE layoutChildren(item.kids, 1,
                            [type |-> item.type, X |-> parentXRatio, Y |-> parentYRatio,
                             W |-> W, H |-> H, xRatio |-> 0, yRatio |-> 0,
                             hasColumns |-> FALSE, hasRows |-> FALSE])

\* Layout.Set: the root row around the arguments
LayoutSetItems(items) == layoutHelper(ContainerOf("Row", Unit, items), Unit, Unit, 0, 0)

\* image.Rect: the corners put in order
CanonRect(x0, y0, x1, y1) ==
    Rect(IF x0 <= x1 THEN x0 ELSE x1, IF y0 <= y1 THEN y0 ELSE y1,
         IF x0 <= x1 THEN x1 ELSE x0, IF y0 <= y1 THEN y1 ELSE y0)

\* Base.SetRect with NewBase's padding of 1 and margin of 0: the inner rectangle
PaddingOfBase == 1
InnerOf(x1, y1, x2, y2) ==
    CanonRect(x1 + 1 + PaddingOfBase, y1 + 1 + PaddingOfBase,
              x2 - 1 - PaddingOfBase, y2 - 1 - PaddingOfBase)

\* Layout.Draw for one item: the rectangle passed to SetRect, NoRect when skipped
placeItem(item, inner) ==
    LET width == inner.maxX - inner.minX
        height == inner.maxY - inner.minY
        x == ((width * item.XRatio) \div Unit) + inner.minX
        y == ((height * item.YRatio) \div Unit) + inner.minY
        w0 == (width * item.WidthRatio) \div Unit
        h0 == (height * item.HeightRatio) \div Unit
        w == IF x + w0 > inner.maxX THEN inner.maxX - x ELSE w0
        h == IF y + h0 > inner.maxY THEN inner.maxY - y ELSE h0
        xa == CASE item.Align = AlignCenter -> x + (w \div 4)
                [] item.Align = AlignRight -> x + (w \div 2)
                [] OTHER -> x
    IN  IF w <= 0 \/ h <= 0 THEN NoRect ELSE Rect(xa, y, xa + w, y + h)

\* the arguments of Set
LeafRatios == {Unit \div 4, Unit \div 2}
ContainerRatios == {Unit \div 2, Unit}
LeafItems == {LeafOf(t, r) : t \in LayoutItemTypes, r \in LeafRatios}
KidLists == UNION {[1 .. k -> {LeafOf(t, Unit \div 2) : t \in LayoutItemTypes}] : k \in 1 .. 2}
Containers == {ContainerOf(t, r, kids) :
                  t \in LayoutItemTypes, r \in ContainerRatios, kids \in KidLists}
\* one child of any kind, two leaves or widgets, or up to MaxChildren quarters
Quarters == {LeafOf(t, Unit \div 4) : t \in LayoutItemTypes}
Trees ==
    [1 .. 1 -> LeafItems \cup Containers \cup {Drawable}]
        \cup [1 .. 2 -> LeafItems \cup {Drawable}]
        \cup UNION {[1 .. k -> Quarters] : k \in 3 .. MaxChildren}

InitLayout ==
    /\ LayoutIdle /\ LockIdle /\ WidgetIdle
    /\ cache = EmptyMap /\ bounds = NoRect
    /\ Idle /\ FBIdle /\ ParseIdle
    /\ StrayIdle /\ ScrollIdle /\ RenderIdle

LayoutSet(items) ==
    /\ ltree' = items
    /\ litems' = LayoutSetItems(items)
    /\ lplaced' = <<>>
    /\ lastLayoutOp' = "Set"
    /\ UNCHANGED <<linner, basevars, kvars, wvars, scvars>>

LayoutAddItem(xRatio, yRatio, widthRatio, heightRatio, align) ==
    /\ Len(litems) < MaxAdded
    /\ litems' = Append(litems, Resolved(xRatio, yRatio, widthRatio, heightRatio, align))
    /\ lplaced' = <<>>
    /\ lastLayoutOp' = "AddItem"
    /\ UNCHANGED <<ltree, linner, basevars, kvars, wvars, scvars>>

LayoutSetRect(x1, y1, x2, y2) ==
    /\ linner' = InnerOf(x1, y1, x2, y2)
    /\ linner' # linner
    /\ lplaced' = <<>>
    /\ lastLayoutOp' = "SetRect"
    /\ UNCHANGED <<ltree, litems, basevars, kvars, wvars, scvars>>

LayoutDraw ==
    /\ lplaced' = [i \in 1 .. Len(litems) |-> placeItem(litems[i], linner)]
    /\ lastLayoutOp' = "Draw"
    /\ UNCHANGED <<ltree, litems, linner, basevars, kvars, wvars, scvars>>

\* the outer rectangles given to the layout are squares: inner extents
\* 1 .. MaxInner, and the extent 3 whose inner corners cross
Extents == {3} \cup {4 + k : k \in 1 .. MaxInner}

NextLayout ==
    \/ \E items \in Trees : LayoutSet(items)
    \/ \E x \in {0, Unit \div 2}, a \in Alignments : LayoutAddItem(x, 0, Unit, Unit, a)
    \/ \E o \in {0, 1}, d \in Extents : LayoutSetRect(o, o, o + d, o + d)
    \/ LayoutDraw

SpecLayout == InitLayout /\ [][NextLayout]_vars

\* ------------------------------------------------------- Render and the widget locks
\* ---- SpecLock: the first loop of Renderer.Render, one step per statement,
\* beside a thread that changes widget rectangles under the widget's lock
RenderAt(items, i, at) == [items |-> items, i |-> i, at |-> at]
MutatorAt(at, w, r) == [at |-> at, w |-> w, newRect |-> r]

InitLock ==
    /\ krect \in [Widgets -> Rects]
    /\ mutex = [w \in Widgets |-> "free"]
    /\ rpc = RenderAt(<<>>, 0, "idle")
    /\ rbufRect = NoRect
    /\ mpc = MutatorAt("idle", "w1", NoRect)
    /\ LayoutIdle /\ WidgetIdle
    /\ cache = EmptyMap /\ bounds = NoRect
    /\ Idle /\ FBIdle /\ ParseIdle
    /\ StrayIdle /\ ScrollIdle /\ RenderIdle

\* the widget the renderer is at
RenderItem == rpc.items[rpc.i]

\* Render is called
RenderStart(items) ==
    /\ rpc.at = "idle"
    /\ rpc' = RenderAt(items, 1, "NewBuffer")
    /\ UNCHANGED <<krect, mutex, rbufRect, mpc, basevars, lvars, wvars, scvars>>

\* buf := NewBuffer(item.GetRect()): the rectangle is read as memory holds it
RenderNewBuffer ==
    /\ rpc.at = "NewBuffer"
    /\ rbufRect' = krect[RenderItem]
    /\ rpc' = [rpc EXCEPT !.at = "Lock"]
    /\ UNCHANGED <<krect, mutex, mpc, basevars, lvars, wvars, scvars>>

\* item.Lock()
RenderLock ==
    /\ rpc.at = "Lock"
    /\ mutex[RenderItem] = "free"
    /\ mutex' = [mutex EXCEPT ![RenderItem] = "renderer"]
    /\ rpc' = [rpc EXCEPT !.at = "Draw"]
    /\ UNCHANGED <<krect, rbufRect, mpc, basevars, lvars, wvars, scvars>>

\* item.Draw(buf)
RenderDraw ==
    /\ rpc.at = "Draw"
    /\ rpc' = [rpc EXCEPT !.at = "Unlock"]
    /\ UNCHANGED <<krect, mutex, rbufRect, mpc, basevars, lvars, wvars, scvars>>

\* item.Unlock(), and on to the next item or out of the loop
RenderUnlock ==
    /\ rpc.at = "Unlock"
    /\ mutex' = [mutex EXCEPT ![RenderItem] = "free"]
    /\ rpc' = IF rpc.i < Len(rpc.items)
              THEN [rpc EXCEPT !.i = rpc.i + 1, !.at = "NewBuffer"]
              ELSE RenderAt(<<>>, 0, "idle")
    /\ UNCHANGED <<krect, rbufRect, mpc, basevars, lvars, wvars, scvars>>

\* the other thread: w.Lock()
MutatorLock(w) ==
    /\ mpc.at = "idle"
    /\ mutex[w] = "free"
    /\ mutex' = [mutex EXCEPT ![w] = "mutator"]
    /\ mpc' = MutatorAt("locked", w, NoRect)
    /\ UNCHANGED <<krect, rpc, rbufRect, basevars, lvars, wvars, scvars>>

\* w.SetRect: Base.SetRect stores the rectangle word by word, Min first
MutatorSetRectMin(r) ==
    /\ mpc.at = "locked"
    /\ r # krect[mpc.w]
    /\ krect' = [krect EXCEPT ![mpc.w] = [@ EXCEPT !.minX = r.minX, !.minY = r.minY]]
    /\ mpc' = [mpc EXCEPT !.at = "writing", !.newRect = r]
    /\ UNCHANGED <<mutex, rpc, rbufRect, basevars, lvars, wvars, scvars>>

MutatorSetRectMax ==
    /\ mpc.at = "writing"
    /\ krect' = [krect EXCEPT ![mpc.w] = mpc.newRect]
    /\ mpc' = [mpc EXCEPT !.at = "written", !.newRect = NoRect]
    /\ UNCHANGED <<mutex, rpc, rbufRect, basevars, lvars, wvars, scvars>>

\* w.Unlock()
MutatorUnlock ==
    /\ mpc.at = "written"
    /\ mutex' = [mutex EXCEPT ![mpc.w] = "free"]
    /\ mpc' = MutatorAt("idle", "w1", NoRect)
    /\ UNCHANGED <<krect, rpc, rbufRect, basevars, lvars, wvars, scvars>>

NextLock ==
    \/ \E items \in ItemLists : RenderStart(items)
    \/ RenderNewBuffer
    \/ RenderLock
    \/ RenderDraw
    \/ RenderUnlock
    \/ \E w \in Widgets : MutatorLock(w)
    \/ \E r \in Rects : MutatorSetRectMin(r)
    \/ MutatorSetRectMax
    \/ MutatorUnlock

SpecLock == InitLock /\ [][NextLock]_vars

\* ------------------------------------------------------- widgets on degenerate data
\* ---- SpecWidgets: Plot.Draw and Table.Draw up to the first content cell
\* what a Draw came to: it returned or it panicked, and whether it wrote a
\* cell after Base.Draw
DrawResult(outcome, wrote) == [outcome |-> outcome, wrote |-> wrote]
NotDrawn == DrawResult("none", FALSE)

RECURSIVE MaxOfSeries(_, _)
\* the inner loop of GetMaxFloat64From2dSlice over one series
MaxOfSeries(slice, max) ==
    IF slice = <<>> THEN max
    ELSE MaxOfSeries(Tail(slice), IF Head(slice) > max THEN Head(slice) ELSE max)
RECURSIVE MaxOfAll(_, _)
MaxOfAll(slices, max) ==
    IF slices = <<>> THEN max ELSE MaxOfAll(Tail(slices), MaxOfSeries(Head(slices), max))

\* GetMaxFloat64From2dSlice: an error, a panic on slices[0][0], or the maximum
GetMaxFloat64From2dSlice(slices) ==
    IF Len(slices) = 0 THEN [err |-> TRUE, panic |-> FALSE, max |-> 0]
    ELSE IF Len(slices[1]) = 0 THEN [err |-> FALSE, panic |-> TRUE, max |-> 0]
    ELSE [err |-> FALSE, panic |-> FALSE, max |-> MaxOfAll(slices, slices[1][1])]

\* Plot.Draw with ShowAxes as NewPlot sets it: plotAxes writes the origin cell
PlotDrawResult(Data, MaxVal) ==
    IF MaxVal # 0 THEN DrawResult("returned", TRUE)
    ELSE LET m == GetMaxFloat64From2dSlice(Data)
         IN  IF m.panic THEN DrawResult("panic", FALSE)
             ELSE IF m.err \/ m.max = 0 THEN DrawResult("returned", FALSE)
             ELSE DrawResult("returned", TRUE)

\* Table.Draw with RowSeparator as NewTable sets it and FillRow off, on an
\* inner rectangle dy cells high: the column widths, then per row the cells,
\* the vertical separators and the horizontal separator
TableDrawResult(Rows, ColumnWidths, dy) ==
    IF Len(ColumnWidths) = 0 /\ Len(Rows) > 0 /\ Len(Rows[1]) = 0
    THEN DrawResult("panic", FALSE)
    ELSE LET columns == IF Len(ColumnWidths) = 0 /\ Len(Rows) > 0
                        THEN Len(Rows[1]) ELSE Len(ColumnWidths)
             rowDrawn == Len(Rows) > 0 /\ dy > 0
         IN  DrawResult("returned",
                        rowDrawn /\ (columns > 0 \/ (Len(Rows) > 1 /\ dy > 1)))

PlotSeries == SeqsUpTo({0, 1}, MaxPoints)
PlotData == SeqsUpTo(PlotSeries, MaxSeries)
TableRowSet == SeqsUpTo({"a"}, MaxPoints)
TableRows == SeqsUpTo(TableRowSet, MaxSeries)

InitWidgets ==
    /\ WidgetIdle
    /\ LayoutIdle /\ LockIdle
    /\ cache = EmptyMap /\ bounds = NoRect
    /\ Idle /\ FBIdle /\ ParseIdle
    /\ StrayIdle /\ ScrollIdle /\ RenderIdle

\* the program sets the plot's Data and MaxVal
SetPlot(Data, MaxVal) ==
    /\ wkind' = "Plot" /\ wdata' = Data /\ wparam' = MaxVal /\ wheight' = 0
    /\ wresult' = NotDrawn
    /\ UNCHANGED <<basevars, lvars, kvars, scvars>>

\* the program sets the table's Rows and ColumnWidths, and its rectangle
SetTable(Rows, ColumnWidths, dy) ==
    /\ wkind' = "Table" /\ wdata' = Rows /\ wparam' = ColumnWidths /\ wheight' = dy
    /\ wresult' = NotDrawn
    /\ UNCHANGED <<basevars, lvars, kvars, scvars>>

PlotDraw ==
    /\ wkind = "Plot" /\ wresult = NotDrawn
    /\ wresult' = PlotDrawResult(wdata, wparam)
    /\ UNCHANGED <<wkind, wdata, wparam, wheight, basevars, lvars, kvars, scvars>>

TableDraw ==
    /\ wkind = "Table" /\ wresult = NotDrawn
    /\ wresult' = TableDrawResult(wdata, wparam, wheight)
    /\ UNCHANGED <<wkind, wdata, wparam, wheight, basevars, lvars, kvars, scvars>>

NextWidgets ==
    \/ \E d \in PlotData, m \in {0, 1} : SetPlot(d, m)
    \/ \E r \in TableRows, cw \in {<<>>, <<1>>}, dy \in 1 .. 2 : SetTable(r, cw, dy)
    \/ PlotDraw
    \/ TableDraw

SpecWidgets == InitWidgets /\ [][NextWidgets]_vars

\* ------------------------------------------------------- StripStyleMarkup
\* whether a ')' stands after position i of runes
closesAfter(runes, i) == \E j \in (i + 1) .. Len(runes) : runes[j] = tokenEndStyle

RECURSIVE stripFrom(_, _, _)
\* the loop of StripStyleMarkup from rune i on; st holds inMarkup, bracketDepth
\* and result. The scan for ')' after a closing ']' clears inMarkup and leaves
\* the loop index where it is.
stripFrom(runes, i, st) ==
    IF i > Len(runes) THEN st.result
    ELSE LET r == runes[i]
         IN  stripFrom(runes, i + 1,
                IF r = tokenBeginStyledText
                THEN [st EXCEPT !.inMarkup = TRUE, !.bracketDepth = 1]
                ELSE IF r = tokenEndStyledText /\ st.inMarkup
                THEN [st EXCEPT !.bracketDepth = @ - 1,
                                !.inMarkup = ~(st.bracketDepth - 1 = 0
                                               /\ closesAfter(runes, i))]
                ELSE IF ~st.inMarkup
                THEN [st EXCEPT !.result = Append(@, r)]
                ELSE st)

StripStyleMarkup(s) ==
    stripFrom(s, 1, [inMarkup |-> FALSE, bracketDepth |-> 0, result |-> <<>>])

\* ------------------------------------------------------- bar charts
\* ---- SpecBars: BarChart.Draw and StackedBarChart.Draw, the bar bodies
\* NewBarChart and NewStackedBarChart
BarWidth == 3
BarGap == 1

MinInt(x, y) == IF x < y THEN x ELSE y

\* GetMaxFloat64FromSlice: an error on the empty slice, else the maximum
GetMaxFloat64FromSlice(slice) ==
    IF Len(slice) = 0 THEN [err |-> TRUE, max |-> 0]
    ELSE [err |-> FALSE, max |-> MaxOfSeries(slice, slice[1])]

RECURSIVE SumFloat64Slice(_)
SumFloat64Slice(slice) ==
    IF slice = <<>> THEN 0 ELSE Head(slice) + SumFloat64Slice(Tail(slice))

\* a bar as tall as the whole column whatever its value
barHeightFull(d, maxVal, dy) == dy - 1

\* int((data / maxVal) * float64(Inner.Dy()-1)) on non-negative values
barHeight(d, maxVal, dy) == (d * (dy - 1)) \div maxVal

\* the cells of one bar body: columns barX up to the clipped right edge, and
\* height rows from row base upward
barBody(barX, Inner, base, height) ==
    {<<x, y>> : x \in barX .. (MinInt(barX + BarWidth, Inner.maxX) - 1),
                y \in (base - height + 1) .. base}

\* the left edge of bar i (from 1): barX advances by BarWidth + BarGap
barXOf(Inner, i) == Inner.minX + (i - 1) * (BarWidth + BarGap)

\* BarChart.Draw: the bodies of the bars, one set of cells per bar
BarChartDraw(Data, MaxVal, Inner) ==
    LET m == GetMaxFloat64FromSlice(Data)
        maxVal == IF MaxVal = 0 THEN m.max ELSE MaxVal
        dy == Inner.maxY - Inner.minY
        bars == [i \in 1 .. Len(Data) |->
                    IF Data[i] > 0
                    THEN barBody(barXOf(Inner, i), Inner, Inner.maxY - 2,
                                 barHeight(Data[i], maxVal, dy))
                    ELSE {}]
    IN  IF MaxVal = 0 /\ (m.err \/ m.max = 0)
        THEN [outcome |-> "returned", wrote |-> FALSE, bars |-> <<>>, heights |-> <<>>]
        ELSE [outcome |-> "returned", wrote |-> \E i \in 1 .. Len(Data) : bars[i] # {},
              bars |-> bars,
              heights |-> [i \in 1 .. Len(Data) |->
                              IF Data[i] > 0 THEN barHeight(Data[i], maxVal, dy) ELSE 0]]

RECURSIVE stackBar(_, _, _, _, _, _)
\* the segments of one bar from segment j on: stackedY rows are already
\* stacked, body holds their cells
stackBar(bar, j, maxVal, Inner, barX, st) ==
    IF j > Len(bar) THEN st
    ELSE LET height == barHeight(bar[j], maxVal, Inner.maxY - Inner.minY)
         IN  stackBar(bar, j + 1, maxVal, Inner, barX,
                      IF bar[j] > 0
                      THEN [stackedY |-> st.stackedY + height,
                            body |-> st.body \cup
                                     barBody(barX, Inner,
                                             (Inner.maxY - 2) - st.stackedY, height)]
                      ELSE st)

\* the maximum over the bars of the sum of each bar
RECURSIVE MaxOfSums(_, _)
MaxOfSums(Data, max) ==
    IF Data = <<>> THEN max
    ELSE MaxOfSums(Tail(Data), IF SumFloat64Slice(Head(Data)) > max
                               THEN SumFloat64Slice(Head(Data)) ELSE max)

\* StackedBarChart.Draw: per bar the cells of its segments and the rows stacked
StackedBarChartDraw(Data, MaxVal, Inner) ==
    LET maxVal == IF MaxVal = 0 THEN MaxOfSums(Data, 0) ELSE MaxVal
        st == [i \in 1 .. Len(Data) |->
                  stackBar(Data[i], 1, maxVal, Inner, barXOf(Inner, i),
                           [stackedY |-> 0, body |-> {}])]
    IN  IF maxVal = 0
        THEN [outcome |-> "returned", wrote |-> FALSE, bars |-> <<>>, heights |-> <<>>]
        ELSE [outcome |-> "returned", wrote |-> \E i \in 1 .. Len(Data) : st[i].body # {},
              bars |-> [i \in 1 .. Len(Data) |-> st[i].body],
              heights |-> [i \in 1 .. Len(Data) |-> st[i].stackedY]]

\* the inner rectangles: from one column short of a bar to room for two bars,
\* one to MaxBarHeight rows
BarInners ==
    {Rect(0, y0, dx, y0 + dy) : <<y0, dx, dy>> \in {0, 1} \X {2, 4, 6} \X (1 .. MaxBarHeight)}
BarData == SeqsUpTo({1, 2, 4}, MaxBars) \ {<<>>}
StackedSegments == SeqsUpTo({0, 1}, MaxSegments)
StackedData == SeqsUpTo(StackedSegments, MaxBars)

\* a chart with its Data, MaxVal and rectangle set, not drawn yet
InitBars ==
    /\ \/ /\ wkind = "BarChart" /\ wdata \in BarData \cup {<<>>, <<0>>}
          /\ wparam \in {[MaxVal |-> mv, Inner |-> r] : mv \in {0, 4}, r \in BarInners}
       \/ /\ wkind = "StackedBarChart" /\ wdata \in StackedData
          /\ wparam \in {[MaxVal |-> 0, Inner |-> r] : r \in BarInners}
    /\ wheight = wparam.Inner.maxY - wparam.Inner.minY
    /\ wresult = NotDrawn
    /\ LayoutIdle /\ LockIdle
    /\ cache = EmptyMap /\ bounds = NoRect
    /\ Idle /\ FBIdle /\ ParseIdle
    /\ StrayIdle /\ ScrollIdle /\ RenderIdle

BarChartDrawn ==
    /\ wkind = "BarChart" /\ wresult = NotDrawn
    /\ wresult' = BarChartDraw(wdata, wparam.MaxVal, wparam.Inner)
    /\ UNCHANGED <<wkind, wdata, wparam, wheight, basevars, lvars, kvars, scvars>>

StackedBarChartDrawn ==
    /\ wkind = "StackedBarChart" /\ wresult = NotDrawn
    /\ wresult' = StackedBarChartDraw(wdata, wparam.MaxVal, wparam.Inner)
    /\ UNCHANGED <<wkind, wdata, wparam, wheight, basevars, lvars, kvars, scvars>>

NextBars ==
    \/ BarChartDrawn
    \/ StackedBarChartDrawn

SpecBars == InitBars /\ [][NextBars]_vars

\* ------------------------------------------------------- List and Tree
\* ---- SpecScroll: the selection, the scrolling and the flattening of a List
\* or a Tree
\* a flattening that descends into every node
shownAlways(tn, node) == TRUE

\* prepareNode: if node.Expanded
shown(tn, node) == tn.Expanded[node]

RECURSIVE prepareNode(_, _, _, _)
RECURSIVE prepareList(_, _, _, _)
\* the range loops of prepareNodes and prepareNode over a list of nodes
prepareList(tn, list, level, st) ==
    IF list = <<>> THEN st
    ELSE prepareList(tn, Tail(list), level, prepareNode(tn, Head(list), level, st))

\* Tree.prepareNode: the node is appended, its level set, and its children
\* follow when it is expanded
prepareNode(tn, node, level, st) ==
    LET st1 == [rows |-> Append(st.rows, node),
                level |-> [st.level EXCEPT ![node] = level]]
    IN  IF shown(tn, node) THEN prepareList(tn, tn.Nodes[node], level + 1, st1) ELSE st1

\* Tree.prepareNodes: the rows and the level fields it leaves
prepareNodes(tn) == prepareList(tn, tn.roots, 0, [rows |-> <<>>, level |-> tn.level])

\* ScrollAmount: the new SelectedRow
scrollAmount(len, selected, amount) ==
    IF len - selected <= amount THEN len - 1
    ELSE IF selected + amount < 0 THEN 0
    ELSE selected + amount

\* a Draw that leaves topRow alone
adjustNever(selected, top, dy) == top

\* Draw, "Adjust view to show selected row": the new topRow
adjustView(selected, top, dy) ==
    IF selected >= dy + top THEN selected - dy + 1
    ELSE IF selected < top THEN selected
    ELSE top

\* the step every operation shares: the scroll variables it does not mention
\* stay, the other specifications' variables stay
ScrollStep(sel, top, isDraw, panic) ==
    /\ SelectedRow' = sel /\ topRow' = top
    /\ drawn' = isDraw /\ panicked' = panic
    /\ UNCHANGED <<skind, innerDy, basevars, lvars, kvars, wvars>>

\* ScrollAmount through its callers ScrollUp, ScrollDown and ScrollPageDown
ScrollUp ==
    /\ ~panicked /\ skind # "none"
    /\ ScrollStep(scrollAmount(Len(rows), SelectedRow, -1), topRow, FALSE, FALSE)
    /\ UNCHANGED <<nodes, rows>>

ScrollDown ==
    /\ ~panicked /\ skind # "none"
    /\ ScrollStep(scrollAmount(Len(rows), SelectedRow, 1), topRow, FALSE, FALSE)
    /\ UNCHANGED <<nodes, rows>>

ScrollPageUp ==
    /\ ~panicked /\ skind # "none"
    /\ ScrollStep(IF SelectedRow > topRow THEN topRow
                  ELSE scrollAmount(Len(rows), SelectedRow, -innerDy),
                  topRow, FALSE, FALSE)
    /\ UNCHANGED <<nodes, rows>>

ScrollPageDown ==
    /\ ~panicked /\ skind # "none"
    /\ ScrollStep(scrollAmount(Len(rows), SelectedRow, innerDy), topRow, FALSE, FALSE)
    /\ UNCHANGED <<nodes, rows>>

ScrollTop ==
    /\ ~panicked /\ skind # "none"
    /\ ScrollStep(0, topRow, FALSE, FALSE)
    /\ UNCHANGED <<nodes, rows>>

ScrollBottom ==
    /\ ~panicked /\ skind # "none"
    /\ ScrollStep(Len(rows) - 1, topRow, FALSE, FALSE)
    /\ UNCHANGED <<nodes, rows>>

\* List.Draw and Tree.Draw: topRow is adjusted, then the loop over the rows
\* starts at topRow and indexes rows[topRow] when there is a line to draw on
ScrollDraw ==
    /\ ~panicked /\ skind # "none"
    /\ LET top == adjustView(SelectedRow, topRow, innerDy)
       IN  ScrollStep(SelectedRow, top, TRUE, top < 0 /\ innerDy > 0)
    /\ UNCHANGED <<nodes, rows>>

\* Base.SetRect gives the widget another inner height
ScrollSetRect(dy) ==
    /\ ~panicked /\ skind # "none"
    /\ dy # innerDy
    /\ innerDy' = dy
    /\ drawn' = FALSE
    /\ UNCHANGED <<skind, nodes, rows, SelectedRow, topRow, panicked,
                   basevars, lvars, kvars, wvars>>

\* t.nodes with node's Expanded set to e, flattened again by prepareNodes
Reflatten(tn) ==
    LET st == prepareNodes(tn)
    IN  /\ nodes' = [tn EXCEPT !.level = st.level]
        /\ rows' = st.rows

\* Tree.SetNodes on a Tree without nodes, or taking the nodes away
SetNodes(tn) ==
    /\ ~panicked /\ skind = "Tree"
    /\ nodes.count = 0 \/ tn.count = 0
    /\ Reflatten(tn)
    /\ ScrollStep(SelectedRow, topRow, FALSE, FALSE)

\* Collapse, Expand and ToggleExpand: nothing when SelectedRow is at or past
\* the end of rows, a panic on rows[SelectedRow] when it is negative, else the
\* selected node's flag is set and the rows are flattened again
OnSelected(op) ==
    /\ ~panicked /\ skind = "Tree"
    /\ IF SelectedRow >= Len(rows)
       THEN /\ ScrollStep(SelectedRow, topRow, FALSE, FALSE)
            /\ UNCHANGED <<nodes, rows>>
       ELSE IF SelectedRow < 0
       THEN /\ ScrollStep(SelectedRow, topRow, FALSE, TRUE)
            /\ UNCHANGED <<nodes, rows>>
       ELSE LET node == rows[SelectedRow + 1]
                flag == IF op = "Collapse" THEN FALSE
                        ELSE IF Len(nodes.Nodes[node]) = 0 THEN nodes.Expanded[node]
                        ELSE IF op = "Expand" THEN TRUE
                        ELSE ~nodes.Expanded[node]
            IN  /\ Reflatten([nodes EXCEPT !.Expanded[node] = flag])
                /\ ScrollStep(SelectedRow, topRow, FALSE, FALSE)

Collapse == OnSelected("Collapse")
Expand == OnSelected("Expand")
ToggleExpand == OnSelected("ToggleExpand")

\* ExpandAll: Walk sets the flag of every node that has children
ExpandAll ==
    /\ ~panicked /\ skind = "Tree"
    /\ Reflatten([nodes EXCEPT !.Expanded =
                     [i \in 1 .. nodes.count |->
                         IF Len(nodes.Nodes[i]) > 0 THEN TRUE ELSE nodes.Expanded[i]]])
    /\ ScrollStep(SelectedRow, topRow, FALSE, FALSE)

\* CollapseAll: Walk clears the flag of every node
CollapseAll ==
    /\ ~panicked /\ skind = "Tree"
    /\ Reflatten([nodes EXCEPT !.Expanded = [i \in 1 .. nodes.count |-> FALSE]])
    /\ ScrollStep(SelectedRow, topRow, FALSE, FALSE)

\* Tree.SelectedNode: nil without rows, else rows[SelectedRow]
SelectedNode ==
    /\ ~panicked /\ skind = "Tree"
    /\ ScrollStep(SelectedRow, topRow, FALSE,
                  Len(rows) # 0 /\ (SelectedRow < 0 \/ SelectedRow >= Len(rows)))
    /\ UNCHANGED <<nodes, rows>>

\* the ascending sequence of a set of node names
SeqOfSet(S) ==
    CHOOSE s \in [1 .. Cardinality(S) -> S] :
        \A i, j \in 1 .. Cardinality(S) : i < j => s[i] < s[j]
\* the trees of count nodes: every node but the first hangs under an earlier
\* node or is a root (parent 0); any flags
TreesOf(count) ==
    {TreeOf(count, SeqOfSet({i \in 1 .. count : par[i] = 0}),
            [x \in 1 .. count |-> SeqOfSet({i \in 1 .. count : par[i] = x})], e) :
        par \in {p \in [1 .. count -> 0 .. count] : \A i \in 1 .. count : p[i] < i},
        e \in [1 .. count -> BOOLEAN]}
TreeInputs == UNION {TreesOf(count) : count \in 0 .. MaxNodes}

\* NewList with Rows set, or NewTree
InitScroll ==
    /\ skind \in {"List", "Tree"}
    /\ nodes = NoNodes
    /\ rows \in {[i \in 1 .. n |-> i] : n \in IF skind = "List" THEN 0 .. MaxRows ELSE {0}}
    /\ SelectedRow = 0 /\ topRow = 0 /\ innerDy = 0
    /\ drawn = FALSE /\ panicked = FALSE
    /\ LayoutIdle /\ LockIdle /\ WidgetIdle /\ StrayIdle /\ RenderIdle
    /\ cache = EmptyMap /\ bounds = NoRect
    /\ Idle /\ FBIdle /\ ParseIdle

NextScroll ==
    \/ ScrollUp
    \/ ScrollDown
    \/ ScrollPageUp
    \/ ScrollPageDown
    \/ ScrollTop
    \/ ScrollBottom
    \/ ScrollDraw
    \/ \E dy \in 0 .. MaxInnerDy : ScrollSetRect(dy)
    \/ \E tn \in TreeInputs : SetNodes(tn)
    \/ Collapse
    \/ Expand
    \/ ToggleExpand
    \/ ExpandAll
    \/ CollapseAll
    \/ SelectedNode

SpecScroll == InitScroll /\ [][NextScroll]_vars

\* ------------------------------------------------------- Render to its return
\* ---- SpecRender: the first loop of Renderer.Render over widgets and a layout,
\* Layout.Draw locking the layout's children, one step per statement, beside a
\* goroutine that takes one lock at a time and gives it back
\* the item Render is at, and the child Layout.Draw is at
ItemAt == render.items[render.i]
ChildAt == lkids[render.j]

\* Render is called
RenderCall(items) ==
    /\ render.at = "idle"
    /\ render' = RenderPos(items, 1, "Lock", 0)
    /\ UNCHANGED <<locks, mutator, faulty, lkids, cache, bounds, rvars, tvars, fvars, pvars,
                   svars, lvars, kvars, wvars, scvars>>

\* item.Lock(); the Draw that follows is the widget's own or Layout.Draw's loop
ItemLock ==
    /\ render.at = "Lock"
    /\ locks[ItemAt] = "free"
    /\ locks' = [locks EXCEPT ![ItemAt] = "renderer"]
    /\ render' = IF ItemAt # "layout" THEN [render EXCEPT !.at = "Draw"]
                 ELSE IF lkids = <<>> THEN [render EXCEPT !.at = "Unlock"]
                 ELSE [render EXCEPT !.at = "ChildLock", !.j = 1]
    /\ UNCHANGED <<mutator, faulty, lkids, cache, bounds, rvars, tvars, fvars, pvars,
                   svars, lvars, kvars, wvars, scvars>>

\* item.Draw(buf) of a widget: it returns, or it panics and Render is left
\* with the lock held (Unlock is not deferred)
ItemDraw ==
    /\ render.at = "Draw"
    /\ render' = [render EXCEPT !.at = IF ItemAt \in faulty THEN "panicked" ELSE "Unlock"]
    /\ UNCHANGED <<locks, mutator, faulty, lkids, cache, bounds, rvars, tvars, fvars, pvars,
                   svars, lvars, kvars, wvars, scvars>>

\* Layout.Draw: drawable.Lock()
ChildLock ==
    /\ render.at = "ChildLock"
    /\ locks[ChildAt] = "free"
    /\ locks' = [locks EXCEPT ![ChildAt] = "renderer"]
    /\ render' = [render EXCEPT !.at = "ChildDraw"]
    /\ UNCHANGED <<mutator, faulty, lkids, cache, bounds, rvars, tvars, fvars, pvars,
                   svars, lvars, kvars, wvars, scvars>>

\* Layout.Draw: drawable.Draw(buf)
ChildDraw ==
    /\ render.at = "ChildDraw"
    /\ render' = [render EXCEPT !.at = IF ChildAt \in faulty THEN "panicked"
                                         ELSE "ChildUnlock"]
    /\ UNCHANGED <<locks, mutator, faulty, lkids, cache, bounds, rvars, tvars, fvars, pvars,
                   svars, lvars, kvars, wvars, scvars>>

\* Layout.Draw: drawable.Unlock(), and on to the next item or out of Draw
ChildUnlock ==
    /\ render.at = "ChildUnlock"
    /\ locks' = [locks EXCEPT ![ChildAt] = "free"]
    /\ render' = IF render.j < Len(lkids)
                 THEN [render EXCEPT !.at = "ChildLock", !.j = render.j + 1]
                 ELSE [render EXCEPT !.at = "Unlock", !.j = 0]
    /\ UNCHANGED <<mutator, faulty, lkids, cache, bounds, rvars, tvars, fvars, pvars,
                   svars, lvars, kvars, wvars, scvars>>

\* item.Unlock(), and on to the next item or out of Render
ItemUnlock ==
    /\ render.at = "Unlock"
    /\ locks' = [locks EXCEPT ![ItemAt] = "free"]
    /\ render' = IF render.i < Len(render.items)
                 THEN [render EXCEPT !.i = render.i + 1, !.at = "Lock"]
                 ELSE RenderPos(<<>>, 0, "idle", 0)
    /\ UNCHANGED <<mutator, faulty, lkids, cache, bounds, rvars, tvars, fvars, pvars,
                   svars, lvars, kvars, wvars, scvars>>

\* the other goroutine: x.Lock() while it holds no lock
OtherLock(x) ==
    /\ mutator = "none"
    /\ locks[x] = "free"
    /\ locks' = [locks EXCEPT ![x] = "mutator"]
    /\ mutator' = x
    /\ UNCHANGED <<render, faulty, lkids, cache, bounds, rvars, tvars, fvars, pvars,
                   svars, lvars, kvars, wvars, scvars>>

\* the other goroutine: x.Unlock()
OtherUnlock ==
    /\ mutator # "none"
    /\ locks' = [locks EXCEPT ![mutator] = "free"]
    /\ mutator' = "none"
    /\ UNCHANGED <<render, faulty, lkids, cache, bounds, rvars, tvars, fvars, pvars,
                   svars, lvars, kvars, wvars, scvars>>

\* the argument lists of Render: up to MaxRenderItems of the layout and the widgets
RenderLists == UNION {[1 .. n -> Lockables] : n \in 1 .. MaxRenderItems}
\* the layout's items: widgets only, so the layout does not contain itself
KidsLists == UNION {[1 .. n -> Widgets] : n \in 0 .. MaxRenderItems}

\* widgets whose data make Draw panic or not, a layout over some of the widgets
InitRender ==
    /\ locks = [x \in Lockables |-> "free"]
    /\ render = RenderPos(<<>>, 0, "idle", 0)
    /\ mutator = "none"
    /\ faulty \in SUBSET Widgets
    /\ lkids \in KidsLists
    /\ LayoutIdle /\ LockIdle /\ WidgetIdle /\ StrayIdle /\ ScrollIdle
    /\ cache = EmptyMap /\ bounds = NoRect
    /\ Idle /\ FBIdle /\ ParseIdle

NextRender ==
    \/ \E items \in RenderLists : RenderCall(items)
    \/ ItemLock
    \/ ItemDraw
    \/ ChildLock
    \/ ChildDraw
    \/ ChildUnlock
    \/ ItemUnlock
    \/ \E x \in Lockables : OtherLock(x)
    \/ OtherUnlock

\* the goroutine in Render runs on; sync.Mutex hands a lock that is free again
\* and again to a waiter; the other goroutine gives its lock back
SpecRender ==
    /\ InitRender /\ [][NextRender]_vars
    /\ WF_vars(ItemDraw) /\ WF_vars(ChildDraw) /\ WF_vars(ChildUnlock) /\ WF_vars(ItemUnlock)
    /\ SF_vars(ItemLock) /\ SF_vars(ChildLock)
    /\ WF_vars(OtherUnlock)

\* ======================================================= claims
\* the widget of items that is last in argument order among those covering p
LastCovering(items, p) ==
    items[CHOOSE i \in 1 .. Len(items) :
            /\ Covers(items[i], p)
            /\ \A j \in (i + 1) .. Len(items) : ~Covers(items[j], p)]
CoveredBy(items, p) == {i \in 1 .. Len(items) : Covers(items[i], p)}

\* C1: after any sequence of Render and Resize calls, at every cached point
\* inside FrameBuffer.Bounds the backend displays the cached cell.
C1_BackendShowsCache ==
    \A p \in DOMAIN cache : PtIn(p, bounds) => screen[p] = TbCell(cache[p])

\* the rectangles of the widgets of items do not overlap one another
Disjoint(items) ==
    \A i, j \in 1 .. Len(items) :
        i # j => PointsIn(rect[items[i]]) \cap PointsIn(rect[items[j]]) = {}

\* C2: a Render that repeats the Render right before it, with no widget
\* changed in between, makes no SetCell call. Stated for the lists the claim
\* names, one widget or several with disjoint rectangles (widgets that draw
\* different cells at one point rewrite that point in every frame).
C2_RepeatedRenderWritesNothing ==
    (again /\ Disjoint(lastList)) => writes = {}

\* C3: Update(buf) stores buf's in-rectangle cells, and every cached point
\* outside buf's rectangle keeps its cached cell.
C3_UpdateKeepsOutside ==
    lastOp = "Update" =>
        /\ \A p \in DOMAIN buf.cells :
              PtIn(p, buf.rect) => p \in DOMAIN cache /\ cache[p] = buf.cells[p]
        /\ \A p \in DOMAIN pre :
              ~PtIn(p, buf.rect) => p \in DOMAIN cache /\ cache[p] = pre[p]

\* C4: Diff(buf) right after Update(buf) returns an empty changed map and an
\* empty removed list, for every Buffer, sparse or not.
C4_DiffAfterUpdateEmpty ==
    (lastOp = "Diff" /\ afterUpdate) => diffOut = NoDiff

\* C5: Resize(bounds) removes exactly the cached points outside the new
\* bounds, leaves the other cached cells unchanged, adds no point and sets
\* Bounds to the new bounds.
C5_ResizeEvictsOutside ==
    lastOp = "Resize" =>
        /\ bounds = newBounds
        /\ DOMAIN cache = {p \in DOMAIN pre : PtIn(p, newBounds)}
        /\ \A p \in DOMAIN cache : cache[p] = pre[p]

\* C5 witness: a Resize that evicted a cached point and kept another
C5_Witness ==
    /\ lastOp = "Resize"
    /\ \E p \in DOMAIN pre : p \notin DOMAIN cache
    /\ \E p \in DOMAIN pre : p \in DOMAIN cache

\* C6: after Render, at every in-bounds point covered by several widgets of
\* the list the backend displays the cell drawn by the last of them.
C6_LastWidgetWins ==
    lastList # <<>> =>
        \A p \in PointsIn(bounds) :
            Cardinality(CoveredBy(lastList, p)) >= 2 =>
                screen[p] = TbCell(GlyphCell(data[LastCovering(lastList, p)]))

\* C7: when a widget is rendered with a rectangle inside the one it had in the
\* Render before, every in-bounds point it left behind that no rendered widget
\* covers is written as a blank cell by the second Render.
C7_ShrunkWidgetBlanked ==
    \A p \in owed : <<p, TbCell(CellClear)>> \in writes

\* C8: after draw.Clear followed by Render, the backend displays at every
\* in-bounds point of a rendered widget's rectangle the cell drawn there.
C8_CleanRepaintAfterClear ==
    (lastList # <<>> /\ cleared) =>
        \A p \in PointsIn(bounds) :
            CoveredBy(lastList, p) # {} =>
                screen[p] = TbCell(GlyphCell(data[LastCovering(lastList, p)]))

\* an input that opens a span and never closes a style spec: each of its spans
\* is malformed
HasOpenSpan == \E k \in 1 .. Len(input) : input[k] = tokenBeginStyledText
NoSpanCompleted == \A k \in 1 .. Len(input) : input[k] # tokenEndStyle

\* C9: on an input with a malformed span ParseStyles returns one cell per
\* input rune, in input order, each with the original rune and the default
\* style; no rune is dropped.
C9_MalformedKeepsEveryRune ==
    (done /\ HasOpenSpan /\ NoSpanCompleted) =>
        parser.cells = runesToCells(input, defaultStyle)

\* C11: for every string without '[', ParseStyles returns one cell per rune of
\* the string, in the same order, each with the default style.
C11_PlainTextUnchanged ==
    (done /\ ~HasOpenSpan) => parser.cells = runesToCells(input, defaultStyle)

\* C11 witness: a returned parse of a string of ')' , '(' , ']' and letters
C11_Witness ==
    /\ done /\ ~HasOpenSpan /\ Len(input) = MaxInput
    /\ \E k \in 1 .. Len(input) : input[k] = tokenBeginStyle
    /\ \E k \in 1 .. Len(input) : input[k] = tokenEndStyledText
    /\ defaultStyle # StyleClear
    /\ Len(parser.cells) = MaxInput

\* the step of the loop taken in StyledText at bracket depth 0 on a rune that
\* is not '('
FailsAtDepthZero ==
    /\ StepStyledText
    /\ parser.bracketDepth = 0
    /\ Cur # tokenBeginStyle

\* C12: in StyledText at bracket depth 0, on a rune that is not '(', the
\* buffered runes are emitted in order with the default style and parsing
\* resumes at that rune: '[' opens a new span, any other rune is emitted as a
\* plain cell; and "[a][b](fg:red)" yields "[a]" in the default style followed
\* by "b" in red.
C12_RollbackResumesAtRune ==
    /\ [][FailsAtDepthZero =>
            LET emitted == parser.cells \o runesToCells(parser.styledText, defaultStyle)
            IN  IF Cur = tokenBeginStyledText
                THEN /\ parser'.cells = emitted
                     /\ parser'.state = "StyledText"
                     /\ parser'.styledText = <<Cur>>
                     /\ parser'.bracketDepth = 1
                ELSE /\ parser'.cells = Append(emitted, Cell(Cur, defaultStyle))
                     /\ parser'.state = "Default"
                     /\ parser'.styledText = <<>>]_vars
    /\ []((done /\ input = RollbackExample) =>
            parser.cells = runesToCells(<<"[", "a", "]">>, defaultStyle)
                \o <<Cell("b", [defaultStyle EXCEPT !.Fg = ColorRed])>>)

\* C12 witness: "[a][b](fg:red)" right after the second '[': "[a]" is emitted
\* and a new span is open
C12_Witness ==
    /\ input = RollbackExample /\ pos = 4
    /\ parser.state = "StyledText" /\ parser.styledText = <<"[">>
    /\ parser.cells = runesToCells(<<"[", "a", "]">>, defaultStyle)

\* the value a list of style items gives an attribute: the value of its known
\* item for that attribute, the default when it has none
Known(its, attr) == {its[k].val : k \in {j \in 1 .. Len(its) : its[j].attr = attr}}
Expected(its, attr, dflt) ==
    IF Known(its, attr) = {} THEN dflt ELSE CHOOSE v \in Known(its, attr) : TRUE
ExpectedStyle(its, dflt) ==
    [Fg |-> Expected(its, "Fg", dflt.Fg),
     Bg |-> Expected(its, "Bg", dflt.Bg),
     Modifier |-> Expected(its, "Modifier", dflt.Modifier)]

\* C13: an item with an unknown key, color name or modifier name changes
\* nothing; the attribute keeps the default unless a known item of the spec
\* sets it, and the known items apply whatever their place in the spec.
C13_UnknownItemsIgnored ==
    done =>
        \A its \in StyleItemLists :
            input = SpanWith(its) =>
                parser.cells = <<Cell("a", ExpectedStyle(its, defaultStyle))>>

\* C13 witness: a returned parse of a spec with an unknown item before a
\* known one
C13_Witness ==
    /\ done /\ defaultStyle # StyleClear
    /\ \E its \in StyleItemLists :
          /\ input = SpanWith(its) /\ Len(its) = 2
          /\ its[1].attr = "none" /\ its[2].attr = "Bg"
          /\ parser.cells = <<Cell("a", [defaultStyle EXCEPT !.Bg = ColorBlue])>>

\* C14: ParseStyles returns on every input, and when it has returned the
\* parser is in Default with empty styled-text and style-item buffers.
C14_TerminatesWithNothingBuffered ==
    /\ <>done
    /\ [](done => /\ parser.state = "Default"
                  /\ parser.styledText = <<>>
                  /\ parser.styleItems = <<>>
                  /\ pos = Len(input))

\* C14 witness: a returned parse of an input that ends inside a style spec
C14_Witness ==
    /\ done /\ Len(input) >= 3
    /\ input[Len(input)] = tokenBeginStyle
    /\ input[Len(input) - 1] = tokenEndStyledText
    /\ input[1] = tokenBeginStyledText
    /\ parser.state = "Default" /\ parser.styleItems = <<>>

\* the text T of an input "[T](fg:red)"
TextOf(in) == SubSeq(in, 2, Len(in) - Len(RedSpec))
IsWellFormedRed(in) ==
    /\ Len(in) >= Len(RedSpec) + 1
    /\ in = WellFormedRed(TextOf(in))
    /\ Balanced(TextOf(in))

\* C10: for "[T](fg:red)" with T balanced, ParseStyles returns exactly the
\* runes of T in order, inner brackets included, each with foreground red and
\* the default background and modifier.
C10_WellFormedRed ==
    (done /\ IsWellFormedRed(input)) =>
        parser.cells = runesToCells(TextOf(input), [defaultStyle EXCEPT !.Fg = ColorRed])

\* C10 witness: a returned parse of "[T](fg:red)" whose T nests a bracket pair
C10_Witness ==
    /\ done /\ IsWellFormedRed(input)
    /\ \E k \in 1 .. Len(TextOf(input)) : TextOf(input)[k] = "["
    /\ defaultStyle # StyleClear
    /\ Len(parser.cells) = Len(TextOf(input))

\* Row(1.0, Column(0.5, A), Column(0.5, B))
HalvesExample ==
    <<ContainerOf("Row", Unit,
                  <<LeafOf("Column", Unit \div 2), LeafOf("Column", Unit \div 2)>>)>>

\* a list of children that are all columns or all rows, and so are the
\* children of every container among them
RECURSIVE SameTypeChildren(_)
SameTypeChildren(children) ==
    /\ \A i \in 1 .. Len(children) :
          /\ children[i].kind # "drawable"
          /\ children[i].type = children[1].type
    /\ \A i \in 1 .. Len(children) :
          children[i].kind = "container" => SameTypeChildren(children[i].kids)

RECURSIVE SumRatios(_, _)
\* the sum of the ratios of children[1 .. n]
SumRatios(children, n) ==
    IF n = 0 THEN 0 ELSE children[n].ratio + SumRatios(children, n - 1)

\* the place of child i of a container at box: the container origin plus the
\* container extent times the sum of the preceding ratios, with the container
\* extent times its own ratio as extent
ChildBox(children, i, box) ==
    IF children[i].type = "Column"
    THEN [X |-> box.X + ((box.W * SumRatios(children, i - 1)) \div Unit), Y |-> box.Y,
          W |-> (box.W * children[i].ratio) \div Unit, H |-> box.H]
    ELSE [X |-> box.X, Y |-> box.Y + ((box.H * SumRatios(children, i - 1)) \div Unit),
          W |-> box.W, H |-> (box.H * children[i].ratio) \div Unit]

RECURSIVE PlacedByRule(_, _, _)
PlacedByRule(children, i, box) ==
    IF i > Len(children) THEN <<>>
    ELSE LET b == ChildBox(children, i, box)
         IN  (IF children[i].kind = "leaf"
              THEN <<Resolved(b.X, b.Y, b.W, b.H, AlignLeft)>>
              ELSE PlacedByRule(children[i].kids, 1, b))
                \o PlacedByRule(children, i + 1, box)

\* C15: Set(Row(1.0, Column(0.5, A), Column(0.5, B))) resolves A to
\* (0, 0, 0.5, 1) and B to (0.5, 0, 0.5, 1); and where the children of every
\* container are all columns or all rows, child i sits at the container origin
\* plus the container extent times the sum of the preceding ratios, with the
\* container extent times its own ratio as extent.
C15_SiblingsEndToEnd ==
    lastLayoutOp = "Set" =>
        /\ ltree = HalvesExample =>
              litems = <<Resolved(0, 0, Unit \div 2, Unit, AlignLeft),
                         Resolved(Unit \div 2, 0, Unit \div 2, Unit, AlignLeft)>>
        /\ SameTypeChildren(ltree) =>
              litems = PlacedByRule(ltree, 1, [X |-> 0, Y |-> 0, W |-> Unit, H |-> Unit])

\* C15 witness: the example has been set and resolved to two halves
C15_Witness ==
    /\ lastLayoutOp = "Set" /\ ltree = HalvesExample
    /\ Len(litems) = 2
    /\ litems[2].XRatio = Unit \div 2 /\ litems[2].WidthRatio = Unit \div 2

\* the ratios of the children lie in [0, 1] and sum to at most 1, in the list
\* and in every container of it (a bare widget takes 1/n of its n siblings)
RatioOf(children, i) ==
    IF children[i].kind = "drawable" THEN Unit \div Len(children) ELSE children[i].ratio
RECURSIVE SumOfRatios(_, _)
SumOfRatios(children, n) ==
    IF n = 0 THEN 0 ELSE RatioOf(children, n) + SumOfRatios(children, n - 1)
RECURSIVE RatiosFit(_)
RatiosFit(children) ==
    /\ \A i \in 1 .. Len(children) : RatioOf(children, i) \in 0 .. Unit
    /\ SumOfRatios(children, Len(children)) <= Unit
    /\ \A i \in 1 .. Len(children) :
          children[i].kind = "container" => RatiosFit(children[i].kids)

\* two resolved rectangles share a point of the ratio plane
Overlap(a, b) ==
    /\ a.XRatio < b.XRatio + b.WidthRatio /\ b.XRatio < a.XRatio + a.WidthRatio
    /\ a.YRatio < b.YRatio + b.HeightRatio /\ b.YRatio < a.YRatio + a.HeightRatio

\* C16: for every tree passed to Set whose children ratios lie in [0, 1] and
\* sum to at most 1 in each container, rows and columns mixed or not, the
\* resolved rectangles of two distinct leaves do not overlap.
C16_LeavesDoNotOverlap ==
    (lastLayoutOp = "Set" /\ RatiosFit(ltree)) =>
        \A i, j \in 1 .. Len(litems) : i # j => ~Overlap(litems[i], litems[j])

\* the tree is a list of leaves of one type whose ratios sum to 1, it is what
\* Items holds, and Draw placed every leaf
DrawnSiblings(type) ==
    /\ lastLayoutOp = "Draw" /\ ltree # <<>>
    /\ \A i \in 1 .. Len(ltree) : ltree[i].kind = "leaf" /\ ltree[i].type = type
    /\ SumRatios(ltree, Len(ltree)) = Unit
    /\ Len(lplaced) = Len(ltree)
    /\ \A i \in 1 .. Len(lplaced) : lplaced[i] # NoRect

\* C17: for children that are all columns with ratios summing to 1, the cell
\* rectangles given at draw time leave no gap: each right edge is the next
\* left edge and the last right edge is the inner max X; the same for rows on
\* the Y axis.
C17_NoGapBetweenSiblings ==
    /\ DrawnSiblings("Column") =>
          /\ \A i \in 1 .. (Len(lplaced) - 1) : lplaced[i].maxX = lplaced[i + 1].minX
          /\ lplaced[Len(lplaced)].maxX = linner.maxX
    /\ DrawnSiblings("Row") =>
          /\ \A i \in 1 .. (Len(lplaced) - 1) : lplaced[i].maxY = lplaced[i + 1].minY
          /\ lplaced[Len(lplaced)].maxY = linner.maxY

\* C18: Draw skips a leaf or passes SetRect a rectangle inside the layout's
\* inner rectangle, whatever the leaf's alignment: x + w is at most
\* Inner.Max.X and y + h at most Inner.Max.Y.
C18_PlacedInsideInner ==
    lastLayoutOp = "Draw" =>
        \A i \in 1 .. Len(lplaced) :
            lplaced[i] # NoRect =>
                /\ lplaced[i].maxX <= linner.maxX
                /\ lplaced[i].maxY <= linner.maxY

\* C19: during a widget's Draw in Render, under the widget's lock, the
\* rectangle of the Buffer passed to Draw is the widget's rectangle, also when
\* another thread changes rectangles while holding the widget's lock.
C19_BufferRectIsWidgetRect ==
    rpc.at \in {"Draw", "Unlock"} => rbufRect = krect[RenderItem]

\* Plot data with no series, an empty first series, or no value above zero;
\* Table rows with no row or an empty first row
DegeneratePlot ==
    /\ wkind = "Plot" /\ wparam = 0
    /\ \A i \in 1 .. Len(wdata) : \A j \in 1 .. Len(wdata[i]) : wdata[i][j] = 0
DegenerateTable ==
    /\ wkind = "Table" /\ wparam = <<>>
    /\ (wdata = <<>> \/ wdata[1] = <<>>)

\* C20: Draw on degenerate data returns without a panic and writes nothing
\* after the border and title.
C20_DegenerateDataDrawsNothing ==
    (wresult # NotDrawn /\ (DegeneratePlot \/ DegenerateTable)) =>
        wresult = DrawResult("returned", FALSE)

\* ------------------------------------------------------- C21, C22: bar heights
\* the largest value of a non-empty slice
LargestOf(slice) ==
    CHOOSE v \in {slice[i] : i \in 1 .. Len(slice)} :
        \A i \in 1 .. Len(slice) : slice[i] <= v
\* the rows in which bar i has cells
RowsOf(i) == {p[2] : p \in wresult.bars[i]}
\* floor(Data[i] / max(Data) * (innerHeight - 1))
ExpectedBarHeight(i) == (wdata[i] * (wheight - 1)) \div LargestOf(wdata)
\* a bar chart with MaxVal unset and positive data has been drawn
BarChartCase ==
    /\ wkind = "BarChart" /\ wresult # NotDrawn
    /\ wparam.MaxVal = 0 /\ wdata # <<>>
    /\ \A i \in 1 .. Len(wdata) : wdata[i] > 0
BarRowsAsExpected(i) ==
    LET base == wparam.Inner.maxY - 2
    IN  /\ RowsOf(i) = (base - ExpectedBarHeight(i) + 1) .. base
        /\ wdata[i] = LargestOf(wdata) => Cardinality(RowsOf(i)) = wheight - 1
        /\ \A p \in wresult.bars[i] : p[2] >= wparam.Inner.minY

C22_StackedHeights ==
    (/\ wkind = "StackedBarChart" /\ wresult # NotDrawn
     /\ wparam.MaxVal = 0 /\ wresult.heights # <<>>)
    => /\ \A i, j \in 1 .. Len(wdata) :
            SumFloat64Slice(wdata[i]) = SumFloat64Slice(wdata[j])
            => wresult.heights[i] = wresult.heights[j]
       /\ \A i \in 1 .. Len(wdata) :
            (\A j \in 1 .. Len(wdata) :
                SumFloat64Slice(wdata[j]) <= SumFloat64Slice(wdata[i]))
            => wresult.heights[i] = wheight - 1

\* ------------------------------------------------------- C23: StripStyleMarkup
\* the runes of the cells ParseStyles returned
RunesOfCells == [i \in 1 .. Len(parser.cells) |-> parser.cells[i].Rune]

\* C23: when ParseStyles has returned for a well-formed "[T](fg:red)",
\* StripStyleMarkup of the same string is T, the rune sequence of the returned
\* cells: the text is kept, the brackets and the parenthesized style are dropped.
C23_StripEqualsParsedRunes ==
    (done /\ IsWellFormedRed(input)) =>
        /\ StripStyleMarkup(input) = TextOf(input)
        /\ StripStyleMarkup(input) = RunesOfCells

\* ------------------------------------------------------- C24: halving
\* Set was given leaves only, the children of the root row
FlatLeaves ==
    /\ lastLayoutOp = "Set" /\ ltree # <<>>
    /\ \A i \in 1 .. Len(ltree) : ltree[i].kind = "leaf"
\* the number of children of type t among ltree[1 .. k] that come after at
\* least one child of the other type
MetAfterOther(t, k) ==
    Cardinality({j \in 1 .. k :
                    /\ ltree[j].type = t
                    /\ \E i \in 1 .. (j - 1) : ltree[i].type # t})
\* the ratio Unit halved n times
HalvedTimes(n) == Unit \div (2 ^ n)

\* C24: for the children of one container taken in order, the width ratio
\* used for child k is the container's halved once per Row child met after a
\* Column child up to and including k, and the height ratio is the container's
\* halved once per Column child met after a Row child up to and including k;
\* with children of one type nothing is halved.
C24_MixedChildrenHalve ==
    FlatLeaves =>
        /\ Len(litems) = Len(ltree)
        /\ \A k \in 1 .. Len(ltree) :
              LET W == HalvedTimes(MetAfterOther("Row", k))
                  H == HalvedTimes(MetAfterOther("Column", k))
              IN  IF ltree[k].type = "Column"
                  THEN /\ litems[k].WidthRatio = (W * ltree[k].ratio) \div Unit
                       /\ litems[k].HeightRatio = H
                  ELSE /\ litems[k].WidthRatio = W
                       /\ litems[k].HeightRatio = (H * ltree[k].ratio) \div Unit

\* a column, a row and a column have been resolved: the row halves the width,
\* the second column halves the height
C24_Witness ==
    /\ FlatLeaves /\ Len(ltree) = 3
    /\ ltree[1].type = "Column" /\ ltree[2].type = "Row" /\ ltree[3].type = "Column"
    /\ litems[1].WidthRatio = Unit \div 4 /\ litems[1].HeightRatio = Unit
    /\ litems[2].WidthRatio = Unit \div 2 /\ litems[2].HeightRatio = Unit \div 4
    /\ litems[3].WidthRatio = Unit \div 8 /\ litems[3].HeightRatio = Unit \div 2

\* ------------------------------------------------------- C29: cache within Bounds
\* C29: after any sequence of FrameBuffer.Update, Resize and Clear every point
\* cached in the FrameBuffer lies inside FrameBuffer.Bounds.
C29_CacheInsideBounds ==
    \A p \in DOMAIN cache : PtIn(p, bounds)

\* ------------------------------------------------------- C27: stray cells
\* C27: the cell a widget sets outside its Buffer's rectangle is never stored
\* in the FrameBuffer and never handed to the backend, in diff mode and in the
\* full redraw; and in diff mode no tb.SetCell call of Render is at a point
\* outside FrameBuffer.Bounds.
C27_StrayCellsDropped ==
    /\ \A p \in DOMAIN cache : cache[p] # StrayCell
    /\ \A p \in DOMAIN screen : screen[p] # TbCell(StrayCell)
    /\ \A wr \in writes : wr[2] # TbCell(StrayCell)
    /\ enabled => \A wr \in writes : PtIn(wr[1], bounds)

\* a Render in diff mode of one widget alone that wrote cells of its
\* rectangle to the backend and had set a cell at a point of the terminal
\* outside its rectangle
C27_Witness ==
    /\ enabled /\ Len(lastList) = 1
    /\ LET w == lastList[1]
       IN  /\ stray[w] # NoPoint /\ ~PtIn(stray[w], rect[w]) /\ PtIn(stray[w], bounds)
           /\ \E wr \in writes : PtIn(wr[1], rect[w])

\* ------------------------------------------------------- C25, C26, C28: List and Tree
\* the parent of node i, 0 for a root
ParentOf(i) ==
    IF \E x \in 1 .. nodes.count : \E k \in 1 .. Len(nodes.Nodes[x]) : nodes.Nodes[x][k] = i
    THEN CHOOSE x \in 1 .. nodes.count :
            \E k \in 1 .. Len(nodes.Nodes[x]) : nodes.Nodes[x][k] = i
    ELSE 0
RECURSIVE DepthOf(_)
DepthOf(i) == IF ParentOf(i) = 0 THEN 0 ELSE 1 + DepthOf(ParentOf(i))
RECURSIVE AncestorsExpanded(_)
AncestorsExpanded(i) ==
    ParentOf(i) = 0 \/ (nodes.Expanded[ParentOf(i)] /\ AncestorsExpanded(ParentOf(i)))
\* the place of i among its siblings
PlaceOf(i) ==
    LET sibs == IF ParentOf(i) = 0 THEN nodes.roots ELSE nodes.Nodes[ParentOf(i)]
    IN  CHOOSE k \in 1 .. Len(sibs) : sibs[k] = i
RECURSIVE PathOf(_)
\* the places from the root down to i
PathOf(i) == IF ParentOf(i) = 0 THEN <<PlaceOf(i)>> ELSE Append(PathOf(ParentOf(i)), PlaceOf(i))
RECURSIVE PathBefore(_, _)
\* depth-first pre-order: an ancestor before its descendants, an earlier
\* sibling's subtree before a later sibling's
PathBefore(p, q) ==
    IF p = <<>> THEN q # <<>>
    ELSE IF q = <<>> THEN FALSE
    ELSE IF Head(p) # Head(q) THEN Head(p) < Head(q)
    ELSE PathBefore(Tail(p), Tail(q))

\* C25: the flattened rows of a Tree are, without repetition, the nodes all of
\* whose ancestors are expanded, in depth-first pre-order, and the level field
\* of each is its depth; so no descendant of a collapsed node is a row.
C25_RowsArePreorderOfVisible ==
    skind = "Tree" =>
        /\ {rows[k] : k \in 1 .. Len(rows)} = {i \in 1 .. nodes.count : AncestorsExpanded(i)}
        /\ \A k, l \in 1 .. Len(rows) : k < l => PathBefore(PathOf(rows[k]), PathOf(rows[l]))
        /\ \A k \in 1 .. Len(rows) : nodes.level[rows[k]] = DepthOf(rows[k])

\* a Tree with an expanded root whose child is a row, a collapsed node that
\* hides its child, and a second root after them
C25_Witness ==
    /\ skind = "Tree" /\ nodes.count = MaxNodes /\ ~panicked
    /\ \E i \in 1 .. nodes.count :
          /\ ~nodes.Expanded[i] /\ Len(nodes.Nodes[i]) > 0
          /\ \E k \in 1 .. Len(rows) : rows[k] = i
    /\ \E k \in 1 .. Len(rows) : nodes.level[rows[k]] = 1
    /\ Len(rows) < nodes.count

\* C26: after a Draw of a List or a Tree with a positive inner height the
\* selected row is in view, topRow <= SelectedRow < topRow + h.
C26_SelectionInView ==
    (drawn /\ innerDy > 0) => (topRow <= SelectedRow /\ SelectedRow < topRow + innerDy)

\* a Draw that had to scroll down to the selection
C26_Witness ==
    /\ drawn /\ ~panicked /\ innerDy > 0 /\ innerDy < Len(rows)
    /\ topRow > 0 /\ SelectedRow = topRow + innerDy - 1

\* C28: after any sequence of scroll operations on a List or a Tree, and of
\* Expand, Collapse, ToggleExpand, ExpandAll, CollapseAll and SetNodes on a
\* Tree, 0 <= SelectedRow <= max(0, rowCount - 1).
C28_SelectedRowInRange ==
    /\ 0 <= SelectedRow
    /\ SelectedRow <= (IF Len(rows) > 0 THEN Len(rows) - 1 ELSE 0)

\* ------------------------------------------------------- C30: Render returns
\* C30: every Render call, of widgets or of a layout that locks its children
\* under its own lock, eventually returns, and when Render is not under way it
\* holds no lock.
C30_RenderReturnsUnlocked ==
    /\ [](render.at = "idle" => \A x \in Lockables : locks[x] # "renderer")
    /\ (render.at # "idle") ~> (render.at = "idle")

====
